---- MODULE Spec2Model ----
(***************************************************************************)
(* Citrus platform driver: a two-wire (I2C) and a four-wire (SPI)          *)
(* bit-banged engine sharing the sck and mosi lines of struct citrus_core  *)
(* under citrus_core.bus_mutex, with the I2C fault injector (debugfs).     *)
(*                                                                         *)
(* Sources: src/drivers/platform/citrus/citrus-core.c (lock and line       *)
(* helpers), src/drivers/platform/citrus/citrus-i2c.c (i2c glue, fault     *)
(* injector, spi glue).  The bit engines themselves (i2c-algo-bit's        *)
(* bit_xfer, spi-bitbang-txrx.h, the spi/i2c cores that call the hooks)    *)
(* are kernel code outside these files and are modelled from the           *)
(* specification's sections 4.2 and 4.3.                                   *)
(***************************************************************************)
EXTENDS Integers, Sequences, FiniteSets, TLC

\* ------------------------------------------------------------------ bounds

\* word width of the four-wire transfers of the concurrent specification
ConcBits == 1
\* word width of the four-wire word-transfer specification
WordBits == 4
\* data bytes of a two-wire write after the address byte
MaxBytes == 1
\* interrupt firings let through per armed interrupt
MaxEdges == 2

\* ------------------------------------------------------- program constants

\* citrus-i2c.c:150,167  if (addr > 0x7f) return -EINVAL
MAX_ADDR == 127
\* citrus-i2c.c:230,259  if (duration > 100 * 1000) return -EINVAL
MAX_DURATION == 100000
\* citrus-i2c.c:156  i2c_gpio_incomplete_transfer(priv, pattern, 9)
ADDR_PHASE_BITS == 9
\* citrus-i2c.c:175  i2c_gpio_incomplete_transfer(priv, pattern, 18)
WRITE_BYTE_BITS == 18
\* errno values returned by the driver and by the kernel services it calls
EINVAL == 22
ENXIO == 6
EBUSY == 16
ETIMEDOUT == 110

Bit == {0, 1}
Pow2(n) == 2 ^ n
\* bit i of x
BitAt(x, i) == (x \div Pow2(i)) % 2

Free == "free"

\* ------------------------------------------------------------ construction

\* seeded fault: the read-back hook installed whatever the flag says
has_getscl_always(output_only) == TRUE
\* i2c_citrus_probe: if (!pdata->scl_is_output_only) bit_data->getscl = ...
has_getscl(output_only) == ~output_only

\* seeded fault: all controls created unconditionally
debugfs_files_all(getscl) ==
    {"incomplete_addr_phase", "incomplete_write_byte", "inject_panic",
     "lose_arbitration", "scl", "sda"}
\* i2c_gpio_fault_injector_init: the files created under the debugfs directory
debugfs_files(getscl) ==
    {"incomplete_addr_phase", "incomplete_write_byte", "scl", "sda"}
        \cup (IF getscl THEN {"inject_panic", "lose_arbitration"} ELSE {})

\* a u32 device-tree cell: bit 31 and the low 31 bits
U32(top, low) == [present |-> TRUE, top |-> top, low |-> low]
\* a property that the node does not have
Absent == [present |-> FALSE, top |-> 0, low |-> 0]

\* CONFIG_HZ
HZ == 100

\* msecs_to_jiffies(reg) as stored into int pdata->timeout: rounds up; a
\* value with bit 31 set gives MAX_JIFFY_OFFSET, whose truncation to int
\* depends on the width of long
msecs_to_jiffies(m) ==
    IF m.top = 1 THEN {-2, 1073741822}
    ELSE {(m.low \div (1000 \div HZ))
            + (IF m.low % (1000 \div HZ) = 0 THEN 0 ELSE 1)}


\* of_i2c_gpio_get_props: pdata is zeroed, a property that is absent leaves
\* its field untouched
\* (the cell is stored through a u32 pointer into an int field: bit 31 set
\* makes it negative)
pdata_udelay(delay_us) ==
    IF delay_us = Absent THEN 0
    ELSE IF delay_us.top = 1 THEN (delay_us.low - 1073741824) - 1073741824
    ELSE delay_us.low
pdata_timeout(timeout_ms) ==
    IF timeout_ms = Absent THEN {0} ELSE msecs_to_jiffies(timeout_ms)

\* seeded fault: the output-only default ignored
bit_udelay_flat(udelay, output_only) == IF udelay # 0 THEN udelay ELSE 5
\* i2c_citrus_probe: bit_data->udelay
bit_udelay(udelay, output_only) ==
    IF udelay # 0 THEN udelay
    ELSE IF output_only THEN 50 ELSE 5

\* i2c_citrus_probe: bit_data->timeout is pdata->timeout, or HZ / 10 when that is 0

VARIABLES
    sck,            \* citrus_core.sck  : [dir, val]
    mosi,           \* citrus_core.mosi : [dir, val]
    bus_mutex,      \* citrus_core.bus_mutex : Free or the holding caller
    adap_lock,      \* priv->adap bus lock taken by i2c_lock_bus / i2c_transfer
    busy,           \* spi_bitbang.busy
    scl_is_output_only, \* pdata.scl_is_output_only
    scl_irq_data,   \* priv->scl_irq_data
    completion,     \* priv->scl_irq_completion.done
    irq_armed,      \* handler registered by request_irq, or "none"
    panicked,       \* panic() was called
    i2c,            \* the two-wire caller (i2c_transfer -> bit_xfer)
    spi,            \* the four-wire caller (spi core message pump)
    fi,             \* the fault-injector caller (a debugfs write or read)
    irq,            \* the interrupt handler's position
    probe,          \* i2c_citrus_probe: the properties read and the bit_data built
    sck2,           \* citrus_core.sck2 : [dir, val], the clock of the second bus
    i2c2,           \* the caller on the second two-wire adapter
    adap_lock2,     \* the second adapter's bus lock
    scl2_is_output_only, \* pdata.scl_is_output_only of the second adapter
    fi2,            \* a second writer of a fault-injector control, up to the lock
    dirsw,          \* a call of spi_citrus_set_direction: position, arguments, line operations
    in_atomic,      \* i2c_in_atomic_xfer_mode(): transfers run in the atomic mode
    core,           \* citrus_core_probe: its position, the device tree, what it has set up
    scl_held,       \* a target on the bus holds the clock line low (stretching)
    wire,           \* instrumented line abstraction: what the injector put on the lines
    acct            \* per engine: bus_mutex acquisitions and releases of its transaction

vars == <<sck, mosi, bus_mutex, adap_lock, busy, scl_is_output_only,
          scl_irq_data, completion, irq_armed, panicked, i2c, spi, fi, irq, wire, acct,
          scl_held, probe, fi2, dirsw, in_atomic, core, sck2, i2c2, adap_lock2, scl2_is_output_only>>

\* controls of the running driver
Controls == debugfs_files(has_getscl(scl_is_output_only))

\* ------------------------------------------------------------ line abstraction

\* gpiod_set_value_cansleep(desc, value) on a line requested open drain: any
\* non-zero value releases the line (it is pulled high), zero drives it low as
\* an output whatever its direction was
gpiod_set_value(line, value) ==
    IF value # 0 THEN [line EXCEPT !.val = 1] ELSE [dir |-> "out", val |-> 0]
\* gpiod_direction_input(desc), accepted
gpiod_direction_input(line) == [line EXCEPT !.dir = "in"]
\* gpiod_direction_output(desc, value), accepted
gpiod_direction_output(line, value) == [dir |-> "out", val |-> IF value # 0 THEN 1 ELSE 0]
\* what the driver puts on the wire: an input is released (pulled high)
Level(line) == IF line.dir = "out" THEN line.val ELSE 1
\* values gpiod_get_value_cansleep can return: a line driven low reads low, a
\* released line reads whatever the other side of the bus does
Readable(line) == IF Level(line) = 0 THEN {0} ELSE Bit

citrus_core_set_spi_sck(value) == sck' = gpiod_set_value(sck, value)
citrus_core_set_spi_mosi(value) == mosi' = gpiod_set_value(mosi, value)
citrus_core_set_i2c_sda(value) == mosi' = gpiod_set_value(mosi, value)
citrus_core_set_i2c_scl(value) == sck' = gpiod_set_value(sck, value)
\* citrus_core_set_spi_mosi_direction_output(citrus, value), accepted
citrus_core_set_spi_mosi_direction_output_low(value) ==      \* seeded fault
    mosi' = gpiod_direction_output(mosi, 0)
citrus_core_set_spi_mosi_direction_output(value) == mosi' = gpiod_direction_output(mosi, value)
citrus_core_get_i2c_sda == Readable(mosi)
citrus_core_get_i2c_scl == Readable(sck)

\* a STOP condition on the wire: the data line rises while the clock stays high
IsStop(sck0, mosi0, sck1, mosi1) ==
    /\ Level(sck0) = 1 /\ Level(sck1) = 1
    /\ Level(mosi0) = 0 /\ Level(mosi1) = 1

\* ------------------------------------------------------------------ arbiter

\* seeded fault: a lock that does not wait for the holder
mutex_lock_unguarded(who) ==
    /\ bus_mutex' = who
    /\ acct' = [acct EXCEPT ![who].locks = @ + 1]
\* seeded fault: an unlock that leaves the mutex with its holder
mutex_unlock_kept(who) ==
    /\ bus_mutex' = bus_mutex
    /\ acct' = [acct EXCEPT ![who].unlocks = @ + 1]

\* mutex_lock(&citrus->bus_mutex): blocks until the mutex is free
mutex_lock(who) ==
    /\ bus_mutex = Free
    /\ bus_mutex' = who
    /\ acct' = [acct EXCEPT ![who].locks = @ + 1]
\* mutex_unlock(&citrus->bus_mutex)
mutex_unlock(who) ==
    /\ bus_mutex' = Free
    /\ acct' = [acct EXCEPT ![who].unlocks = @ + 1]

Engines == {"i2c", "i2c2", "spi"}
NoAcct == [locks |-> 0, unlocks |-> 0]

citrus_core_lock_spi == mutex_lock("spi")
citrus_core_lock_i2c(who) == mutex_lock(who)
\* citrus_core_unlock_spi and citrus_core_unlock_i2c are mutex_unlock(&citrus->bus_mutex)

\* i2c_lock_bus(&priv->adap, I2C_LOCK_ROOT_ADAPTER): the adapter's own bus lock
i2c_lock_bus_unguarded(who) == adap_lock' = who      \* seeded fault
i2c_unlock_bus_kept(who) == adap_lock' = adap_lock    \* seeded fault
i2c_lock_bus(who) == adap_lock = Free /\ adap_lock' = who
i2c_unlock_bus(who) == adap_lock' = Free

\* ------------------------------------------------------- four-wire engine

\* a u32 register as its 32 bits, bit 0 the least significant
Word32(x) == [k \in 0 .. 31 |-> IF k < 31 THEN BitAt(x, k) ELSE 0]
ShiftLeft(w, n) == [k \in 0 .. 31 |-> IF k >= n THEN w[k - n] ELSE 0]
OrBit(w, k, b) == [w EXCEPT ![k] = IF b # 0 THEN 1 ELSE @]

SpiIdle == [pc |-> "idle", cpol |-> 0, cpha |-> 0, lsb |-> FALSE,
            bits |-> 0, tx |-> 0, w |-> Word32(0), n |-> 0, oldbit |-> 0, ret |-> 0]

\* getmiso(spi): there is no data-in line; the helper returns 0
getmiso == 0

\* setsck(spi, is_on) and setmosi(spi, is_on) are citrus_core_set_spi_sck and
\* citrus_core_set_spi_mosi on the core of the device

\* bitbang_txrx_{be,le}_cpha{0,1}: values before the first bit
\* be: oldbit = (!(word & (1<<(bits-1)))) << 31; word <<= (32 - bits)
\* le: oldbit = !(word & 1)
txrx_first_word(lsb, word, bits) ==
    IF lsb THEN Word32(word) ELSE ShiftLeft(Word32(word), 32 - bits)
txrx_first_oldbit(lsb, word, bits) ==
    IF lsb THEN 1 - (word % 2) ELSE 1 - BitAt(word, bits - 1)
\* the bit that goes out next: word & (1 << 31), or word & 1 when LSB first
txrx_outbit(lsb, w) == IF lsb THEN w[0] ELSE w[31]
\* the shift and sample of one bit
\* be: word <<= 1; word |= getmiso(spi)
\* le: word >>= 1; word |= getmiso(spi) << rxbit   (rxbit = bits - 1)
txrx_sample(lsb, w, bits, miso) ==
    IF lsb THEN OrBit([k \in 0 .. 31 |-> IF k < 31 THEN w[k + 1] ELSE 0], bits - 1, miso)
           ELSE OrBit(ShiftLeft(w, 1), 0, miso)

\* spi_citrus_txrx_word_mode0..3: mode m shifts with cpha = m & 1, cpol = m >> 1
\* and picks the le or be routine by SPI_LSB_FIRST.  The first step of a bit
\* is the data setup for cpha 0 and the leading clock edge for cpha 1.
txrx_first_pc(cpha) == IF cpha = 0 THEN "mosi" ELSE "sck_lead"

\* seeded fault: the mode 2 procedure shifts with the clock idling low
txrx_word_mode2_low(no_tx, m, lsb) ==
    [routine |-> IF lsb THEN "le" ELSE "be", cpha |-> m % 2, cpol |-> 0,
     flags |-> IF no_tx THEN "master" ELSE "caller"]
\* bb->txrx_word[SPI_MODE_m] as spi_citrus_probe fills it, from the
\* spi_citrus_spec_txrx_word_mode<m> functions when SPI_MASTER_NO_TX is set and
\* from spi_citrus_txrx_word_mode<m> otherwise: the bitbang routine the
\* function calls (le when spi->mode has SPI_LSB_FIRST, be otherwise), its
\* cpha (the routine's name) and cpol (the routine's third argument), and the
\* flags it passes (spi->master->flags in the spec_ functions)
txrx_word(no_tx, m, lsb) ==
    LET proc(cpha, cpol) ==
          [routine |-> IF lsb THEN "le" ELSE "be", cpha |-> cpha, cpol |-> cpol,
           flags |-> IF no_tx THEN "master" ELSE "caller"]
    IN  CASE m = 0 -> proc(0, 0)
          [] m = 1 -> proc(1, 0)
          [] m = 2 -> proc(0, 1)
          [] m = 3 -> proc(1, 1)

SpiFrame == UNCHANGED <<fi2, dirsw, in_atomic, core, sck2, i2c2, adap_lock2, scl2_is_output_only, probe, scl_held, adap_lock, scl_is_output_only, scl_irq_data, completion,
                        irq_armed, panicked, i2c, fi, irq, wire>>

\* a message for one word is queued (the device's mode bits, the word width
\* and the word) and the queue is started:
\* spi_citrus_prepare_hardware: citrus_core_lock_spi(...)
spi_citrus_prepare_hardware(orders, widths) ==
    /\ ~panicked
    /\ spi.pc = "idle"
    /\ citrus_core_lock_spi
    /\ \E cpol \in Bit, cpha \in Bit, lsb \in orders, bits \in widths :
         \E tx \in 0 .. (Pow2(bits) - 1) :
            spi' = [SpiIdle EXCEPT !.pc = "prepare_busy", !.cpol = cpol, !.cpha = cpha,
                                   !.lsb = lsb, !.bits = bits, !.tx = tx]
    /\ UNCHANGED <<sck, mosi, busy>>
    /\ SpiFrame

\* the word procedure of the running message: bb->txrx_word[] at the device's
\* mode, spi->mode & (SPI_CPOL | SPI_CPHA); master->flags has no SPI_MASTER_NO_TX
word_proc == txrx_word(FALSE, 2 * spi.cpol + spi.cpha, spi.lsb)

\* spi_citrus_prepare_hardware: bb->busy = 1
spi_citrus_prepare_busy ==
    /\ ~panicked
    /\ spi.pc = "prepare_busy"
    /\ busy' = 1
    /\ spi' = [spi EXCEPT !.pc = "cs_on"]
    /\ UNCHANGED <<sck, mosi, bus_mutex>>
    /\ UNCHANGED acct
    /\ SpiFrame

\* seeded fault: the clock always idles low
chipselect_level_low(cpol) == 0
\* spi->mode & SPI_CPOL, SPI_CPOL being bit 1 of the mode
chipselect_level(cpol) == 2 * cpol

\* spi_citrus_chipselect(spi, 1): set initial clock line level, spi->mode & SPI_CPOL
spi_citrus_chipselect_on ==
    /\ ~panicked
    /\ spi.pc = "cs_on"
    /\ citrus_core_set_spi_sck(chipselect_level(spi.cpol))
    /\ spi' = [spi EXCEPT !.pc = "set_dir"]
    /\ UNCHANGED <<mosi, bus_mutex, busy>>
    /\ UNCHANGED acct
    /\ SpiFrame

\* spi_citrus_set_direction(spi, true) before the words of a transfer with a
\* transmit buffer: return citrus_core_set_spi_mosi_direction_output(..., 1).
\* A rejected switch fails the transfer; otherwise the word routine starts.
spi_citrus_set_direction ==
    /\ ~panicked
    /\ spi.pc = "set_dir"
    /\ \/ /\ citrus_core_set_spi_mosi_direction_output(1)
          /\ spi' = [spi EXCEPT !.pc = txrx_first_pc(word_proc.cpha),
                                !.w = txrx_first_word(word_proc.routine = "le", spi.tx, spi.bits),
                                !.oldbit = txrx_first_oldbit(word_proc.routine = "le", spi.tx, spi.bits),
                                !.n = spi.bits]
       \/ \E e \in {-EINVAL} :
            /\ spi' = [spi EXCEPT !.pc = "cs_off", !.ret = e]
            /\ UNCHANGED mosi
    /\ UNCHANGED <<sck, bus_mutex, busy>>
    /\ UNCHANGED acct
    /\ SpiFrame

\* ---- spi_citrus_set_direction(spi, output), step by step, for either
\* direction and every setting of SPI_3WIRE, SPI_3WIRE_HIZ and SPI_CPOL.
\* dirsw.ops lists the line operations the call has made, dirsw.err is what
\* the line abstraction answered to the direction switch, dirsw.ret is what the
\* call returns once dirsw.pc = "ret".
DirIdle == [pc |-> "idle", output |-> FALSE, three_wire |-> 0, hiz |-> 0,
            cpol |-> 0, err |-> 0, ret |-> 0, ops |-> <<>>]

\* the caller (spi_bitbang, through bb->set_line_direction) enters the function
spi_citrus_set_direction_call ==
    /\ dirsw.pc \in {"idle", "ret"}
    /\ \E output \in BOOLEAN, three_wire \in Bit, hiz \in Bit, cpol \in Bit :
         dirsw' = [DirIdle EXCEPT !.pc = "entry", !.output = output,
                                  !.three_wire = three_wire, !.hiz = hiz, !.cpol = cpol]
    /\ UNCHANGED <<sck, mosi, bus_mutex, busy, spi, acct>>
    /\ UNCHANGED <<fi2, in_atomic, core, sck2, i2c2, adap_lock2, scl2_is_output_only, probe, scl_held,
                   adap_lock, scl_is_output_only, scl_irq_data, completion,
                   irq_armed, panicked, i2c, fi, irq, wire>>

\* if (output) return citrus_core_set_spi_mosi_direction_output(..., 1);
spi_citrus_set_direction_output ==
    /\ dirsw.pc = "entry"
    /\ dirsw.output
    /\ \/ /\ citrus_core_set_spi_mosi_direction_output(1)
          /\ dirsw' = [dirsw EXCEPT !.pc = "ret", !.ret = 0,
                                    !.ops = Append(@, "mosi_direction_output_1")]
       \/ \E e \in {-EINVAL} :
            /\ UNCHANGED mosi
            /\ dirsw' = [dirsw EXCEPT !.pc = "ret", !.err = e, !.ret = e,
                                      !.ops = Append(@, "mosi_direction_output_1")]
    /\ UNCHANGED <<sck, bus_mutex, busy, spi, acct>>
    /\ UNCHANGED <<fi2, in_atomic, core, sck2, i2c2, adap_lock2, scl2_is_output_only, probe, scl_held,
                   adap_lock, scl_is_output_only, scl_irq_data, completion,
                   irq_armed, panicked, i2c, fi, irq, wire>>

\* seeded fault: a rejected switch to input is ignored
spi_citrus_set_direction_input_swallowed ==
    /\ dirsw.pc = "entry"
    /\ ~dirsw.output
    /\ \/ /\ dirsw.three_wire = 0
          /\ UNCHANGED mosi
          /\ dirsw' = [dirsw EXCEPT !.pc = "turnaround"]
       \/ /\ dirsw.three_wire # 0
          /\ mosi' = gpiod_direction_input(mosi)
          /\ dirsw' = [dirsw EXCEPT !.pc = "turnaround",
                                    !.ops = Append(@, "mosi_direction_input")]
       \/ /\ dirsw.three_wire # 0
          /\ \E e \in {-EINVAL} :
               dirsw' = [dirsw EXCEPT !.pc = "turnaround", !.err = e,
                                      !.ops = Append(@, "mosi_direction_input")]
          /\ UNCHANGED mosi
    /\ UNCHANGED <<sck, bus_mutex, busy, spi, acct>>
    /\ UNCHANGED <<fi2, in_atomic, core, sck2, i2c2, adap_lock2, scl2_is_output_only, probe, scl_held,
                   adap_lock, scl_is_output_only, scl_irq_data, completion,
                   irq_armed, panicked, i2c, fi, irq, wire>>

\* if (spi->mode & SPI_3WIRE) {
\*     ret = citrus_core_set_spi_mosi_direction_input(...); if (ret) return ret; }
spi_citrus_set_direction_input ==
    /\ dirsw.pc = "entry"
    /\ ~dirsw.output
    /\ \/ /\ dirsw.three_wire = 0
          /\ UNCHANGED mosi
          /\ dirsw' = [dirsw EXCEPT !.pc = "turnaround"]
       \/ /\ dirsw.three_wire # 0
          /\ mosi' = gpiod_direction_input(mosi)
          /\ dirsw' = [dirsw EXCEPT !.pc = "turnaround",
                                    !.ops = Append(@, "mosi_direction_input")]
       \/ /\ dirsw.three_wire # 0
          /\ \E e \in {-EINVAL} :
               dirsw' = [dirsw EXCEPT !.pc = "ret", !.err = e, !.ret = e,
                                      !.ops = Append(@, "mosi_direction_input")]
          /\ UNCHANGED mosi
    /\ UNCHANGED <<sck, bus_mutex, busy, spi, acct>>
    /\ UNCHANGED <<fi2, in_atomic, core, sck2, i2c2, adap_lock2, scl2_is_output_only, probe, scl_held,
                   adap_lock, scl_is_output_only, scl_irq_data, completion,
                   irq_armed, panicked, i2c, fi, irq, wire>>

\* if (spi->mode & SPI_3WIRE_HIZ)
\*     citrus_core_set_spi_sck(..., !(spi->mode & SPI_CPOL));   else return 0
spi_citrus_set_direction_hiz_lead ==
    /\ dirsw.pc = "turnaround"
    /\ \/ /\ dirsw.hiz # 0
          /\ citrus_core_set_spi_sck(1 - dirsw.cpol)
          /\ dirsw' = [dirsw EXCEPT !.pc = "turnaround_back",
                                    !.ops = Append(@, IF dirsw.cpol = 0 THEN "sck_1" ELSE "sck_0")]
       \/ /\ dirsw.hiz = 0
          /\ UNCHANGED sck
          /\ dirsw' = [dirsw EXCEPT !.pc = "ret", !.ret = 0]
    /\ UNCHANGED <<mosi, bus_mutex, busy, spi, acct>>
    /\ UNCHANGED <<fi2, in_atomic, core, sck2, i2c2, adap_lock2, scl2_is_output_only, probe, scl_held,
                   adap_lock, scl_is_output_only, scl_irq_data, completion,
                   irq_armed, panicked, i2c, fi, irq, wire>>

\* seeded fault: the turnaround leaves the clock away from its idle level
spi_citrus_set_direction_hiz_stuck ==
    /\ dirsw.pc = "turnaround_back"
    /\ dirsw' = [dirsw EXCEPT !.pc = "ret", !.ret = 0]
    /\ UNCHANGED <<sck, mosi, bus_mutex, busy, spi, acct>>
    /\ UNCHANGED <<fi2, in_atomic, core, sck2, i2c2, adap_lock2, scl2_is_output_only, probe, scl_held,
                   adap_lock, scl_is_output_only, scl_irq_data, completion,
                   irq_armed, panicked, i2c, fi, irq, wire>>

\* citrus_core_set_spi_sck(..., !!(spi->mode & SPI_CPOL)); return 0;
spi_citrus_set_direction_hiz_trail ==
    /\ dirsw.pc = "turnaround_back"
    /\ citrus_core_set_spi_sck(dirsw.cpol)
    /\ dirsw' = [dirsw EXCEPT !.pc = "ret", !.ret = 0,
                              !.ops = Append(@, IF dirsw.cpol = 0 THEN "sck_0" ELSE "sck_1")]
    /\ UNCHANGED <<mosi, bus_mutex, busy, spi, acct>>
    /\ UNCHANGED <<fi2, in_atomic, core, sck2, i2c2, adap_lock2, scl2_is_output_only, probe, scl_held,
                   adap_lock, scl_is_output_only, scl_irq_data, completion,
                   irq_armed, panicked, i2c, fi, irq, wire>>

\* if ((word & (1 << 31)) != oldbit) { setmosi(spi, word & (1 << 31)); oldbit = ... }
txrx_setup ==
    /\ ~panicked
    /\ spi.pc = "mosi"
    /\ LET b == txrx_outbit(word_proc.routine = "le", spi.w) IN
         /\ IF b # spi.oldbit THEN citrus_core_set_spi_mosi(b) ELSE UNCHANGED mosi
         /\ spi' = [spi EXCEPT !.oldbit = b,
                               !.pc = IF word_proc.cpha = 0 THEN "sck_lead" ELSE "sck_trail"]
    /\ UNCHANGED <<sck, bus_mutex, busy>>
    /\ UNCHANGED acct
    /\ SpiFrame

\* setsck(spi, !cpol)
txrx_leading_edge ==
    /\ ~panicked
    /\ spi.pc = "sck_lead"
    /\ citrus_core_set_spi_sck(1 - word_proc.cpol)
    /\ spi' = [spi EXCEPT !.pc = IF word_proc.cpha = 0 THEN "sck_trail" ELSE "mosi"]
    /\ UNCHANGED <<mosi, bus_mutex, busy>>
    /\ UNCHANGED acct
    /\ SpiFrame

\* the sample of the bit and setsck(spi, cpol); the loop ends after `bits` bits
txrx_trailing_edge ==
    /\ ~panicked
    /\ spi.pc = "sck_trail"
    /\ citrus_core_set_spi_sck(word_proc.cpol)
    /\ spi' = [spi EXCEPT !.w = txrx_sample(word_proc.routine = "le", spi.w, spi.bits, getmiso),
                          !.n = spi.n - 1,
                          !.pc = IF spi.n = 1 THEN "cs_off" ELSE txrx_first_pc(word_proc.cpha)]
    /\ UNCHANGED <<mosi, bus_mutex, busy>>
    /\ UNCHANGED acct
    /\ SpiFrame

\* spi_citrus_chipselect(spi, 0): nothing is done
spi_citrus_chipselect_off ==
    /\ ~panicked
    /\ spi.pc = "cs_off"
    /\ spi' = [spi EXCEPT !.pc = "unprepare_busy"]
    /\ UNCHANGED <<sck, mosi, bus_mutex, busy>>
    /\ UNCHANGED acct
    /\ SpiFrame

\* seeded fault: the busy flag is left set
spi_citrus_unprepare_busy_kept ==
    /\ ~panicked
    /\ spi.pc = "unprepare_busy"
    /\ spi' = [spi EXCEPT !.pc = "unprepare"]
    /\ UNCHANGED <<sck, mosi, bus_mutex, busy>>
    /\ UNCHANGED acct
    /\ SpiFrame

\* spi_citrus_unprepare_hardware: bb->busy = 0
spi_citrus_unprepare_busy ==
    /\ ~panicked
    /\ spi.pc = "unprepare_busy"
    /\ busy' = 0
    /\ spi' = [spi EXCEPT !.pc = "unprepare"]
    /\ UNCHANGED <<sck, mosi, bus_mutex>>
    /\ UNCHANGED acct
    /\ SpiFrame

\* spi_citrus_unprepare_hardware: citrus_core_unlock_spi(...)
spi_citrus_unprepare_hardware ==
    /\ ~panicked
    /\ spi.pc = "unprepare"
    /\ mutex_unlock("spi")
    /\ spi' = [SpiIdle EXCEPT !.pc = "done", !.ret = spi.ret]
    /\ UNCHANGED <<sck, mosi, busy>>
    /\ SpiFrame

\* the message is handed back to its submitter
spi_complete ==
    /\ ~panicked
    /\ spi.pc = "done"
    /\ spi' = SpiIdle
    /\ UNCHANGED <<sck, mosi, bus_mutex, busy>>
    /\ acct' = [acct EXCEPT !["spi"] = NoAcct]
    /\ SpiFrame

\* ------------------------------------------------------- fault injector

FiIdle == [pc |-> "idle", op |-> "none", arg |-> 0, ret |-> 0, val |-> 0,
           pattern |-> 0, size |-> 0, i |-> 0, how |-> "none", out_err |-> 0]
IrqOff == [pc |-> "off", handler |-> "none", runs |-> 0]
WireIdle == [pulses |-> 0, bits |-> <<>>, sda |-> 1, stop |-> FALSE, low |-> FALSE,
             ops |-> 0]

\* setscl(bd, val) / setsda(bd, val) as the injector calls them, with the line
\* abstraction's record of it: a pulse is the clock driven low and then high,
\* and it carries the data level set for it
fi_setscl(val) ==
    /\ citrus_core_set_i2c_scl(val)
    /\ UNCHANGED mosi
    /\ wire' = [wire EXCEPT
          !.ops = 1,
          !.low = (val = 0),
          !.pulses = IF val # 0 /\ wire.low THEN wire.pulses + 1 ELSE wire.pulses,
          !.bits = IF val # 0 /\ wire.low THEN Append(wire.bits, wire.sda) ELSE wire.bits,
          !.stop = wire.stop \/ IsStop(sck, mosi, gpiod_set_value(sck, val), mosi)]
fi_setsda(val) ==
    /\ citrus_core_set_i2c_sda(val)
    /\ UNCHANGED sck
    /\ wire' = [wire EXCEPT
          !.ops = 1,
          !.sda = IF val # 0 THEN 1 ELSE 0,
          !.stop = wire.stop \/ IsStop(sck, mosi, sck, gpiod_set_value(mosi, val))]

FiFrame == UNCHANGED <<fi2, dirsw, in_atomic, core, sck2, i2c2, adap_lock2, scl2_is_output_only, probe, scl_held, bus_mutex, busy, scl_is_output_only, i2c, spi, acct>>
FiIrqFrame == UNCHANGED <<scl_irq_data, completion, irq_armed, panicked, irq>>

\* WIRE_ATTRIBUTE(scl), WIRE_ATTRIBUTE(sda): a read or a write of the debugfs
\* file "scl" or "sda" starts with i2c_lock_bus(&priv->adap, I2C_LOCK_ROOT_ADAPTER)
fops_wire_lock ==
    /\ ~panicked
    /\ fi.pc = "idle"
    /\ i2c_lock_bus("fi")
    /\ \/ \E op \in {"scl_get", "sda_get"} :
            fi' = [FiIdle EXCEPT !.pc = "wire_op", !.op = op]
       \/ \E op \in {"scl_set", "sda_set"}, v \in Bit :
            fi' = [FiIdle EXCEPT !.pc = "wire_op", !.op = op, !.arg = v]
    /\ wire' = WireIdle
    /\ UNCHANGED <<sck, mosi>>
    /\ FiFrame /\ FiIrqFrame

\* *val = get##wire(&priv->bit_data)
fops_wire_get ==
    /\ ~panicked
    /\ fi.pc = "wire_op"
    /\ fi.op \in {"scl_get", "sda_get"}
    /\ \E r \in (IF fi.op = "scl_get" THEN citrus_core_get_i2c_scl
                                       ELSE citrus_core_get_i2c_sda) :
          fi' = [fi EXCEPT !.pc = "wire_unlock", !.val = r]
    /\ wire' = [wire EXCEPT !.ops = 1]
    /\ UNCHANGED <<sck, mosi, adap_lock>>
    /\ FiFrame /\ FiIrqFrame

\* set##wire(&priv->bit_data, val)
fops_wire_set ==
    /\ ~panicked
    /\ fi.pc = "wire_op"
    /\ fi.op \in {"scl_set", "sda_set"}
    /\ IF fi.op = "scl_set" THEN fi_setscl(fi.arg) ELSE fi_setsda(fi.arg)
    /\ fi' = [fi EXCEPT !.pc = "wire_unlock"]
    /\ UNCHANGED adap_lock
    /\ FiFrame /\ FiIrqFrame

\* i2c_unlock_bus(&priv->adap, I2C_LOCK_ROOT_ADAPTER); return 0
fops_wire_unlock ==
    /\ ~panicked
    /\ fi.pc = "wire_unlock"
    /\ i2c_unlock_bus("fi")
    /\ fi' = [fi EXCEPT !.pc = "done", !.ret = 0]
    /\ UNCHANGED <<sck, mosi, wire>>
    /\ FiFrame /\ FiIrqFrame

\* seeded fault: the final ACK slot driven low instead of released
write_byte_pattern_driven(addr) == (addr * 4 + 1) * Pow2(9)
\* seeded fault: the range check off by one
addr_rejected_late(addr) == addr > MAX_ADDR + 1
\* seeded fault: the pattern loop started one index too high
pattern_first_long(size) == size

\* the patterns are u32; for the addresses that pass the range check they stay
\* below 2^18, so the arithmetic below never wraps
\* ADDR (7 bit) + RD (1 bit) + Client ACK, keep SDA hi (1 bit): (addr << 2) | 3
addr_phase_pattern(addr) == addr * 4 + 3
\* ADDR (7 bit) + WR (1 bit) + Client ACK (1 bit): (addr << 2) | 1, then
\* 0x00 (8 bit) + Client ACK, keep SDA hi (1 bit): (pattern << 9) | 1
write_byte_pattern(addr) == (addr * 4 + 1) * Pow2(9) + 1

\* the range check of both incomplete-transfer controls
addr_rejected(addr) == addr > MAX_ADDR

\* both controls: the range check, the pattern, then
\* i2c_gpio_incomplete_transfer, which starts with i2c_lock_bus(...)
fops_incomplete_set(op, addrs) ==
    /\ ~panicked
    /\ fi.pc = "idle"
    /\ op \in Controls
    /\ \E addr \in addrs :
         IF addr_rejected(addr)
         THEN /\ fi' = [FiIdle EXCEPT !.pc = "done", !.op = op, !.arg = addr,
                                      !.ret = -EINVAL]
              /\ UNCHANGED adap_lock
         ELSE /\ i2c_lock_bus("fi")
              /\ fi' = [FiIdle EXCEPT
                    !.pc = "inc_start", !.op = op, !.arg = addr,
                    !.pattern = IF op = "incomplete_addr_phase"
                                THEN addr_phase_pattern(addr)
                                ELSE write_byte_pattern(addr),
                    !.size = IF op = "incomplete_addr_phase" THEN ADDR_PHASE_BITS
                                                             ELSE WRITE_BYTE_BITS]
    /\ wire' = WireIdle
    /\ UNCHANGED <<sck, mosi>>
    /\ FiFrame /\ FiIrqFrame

\* fops_incomplete_addr_phase_set(data, addr)
fops_incomplete_addr_phase_set(addrs) ==
    fops_incomplete_set("incomplete_addr_phase", addrs)

\* fops_incomplete_write_byte_set(data, addr)
fops_incomplete_write_byte_set(addrs) ==
    fops_incomplete_set("incomplete_write_byte", addrs)

\* the index the pattern loop starts at: for (i = pattern_size - 1; i >= 0; i--)
pattern_first(size) == size - 1

\* START condition: setsda(bit_data, 0)
incomplete_transfer_start ==
    /\ ~panicked
    /\ fi.pc = "inc_start"
    /\ fi_setsda(0)
    /\ fi' = [fi EXCEPT !.i = pattern_first(fi.size),
                        !.pc = IF pattern_first(fi.size) >= 0 THEN "inc_scl0"
                                                             ELSE "inc_unlock"]
    /\ UNCHANGED adap_lock
    /\ FiFrame /\ FiIrqFrame

\* seeded fault: the clock is not driven low before the data is set
incomplete_transfer_scl_kept ==
    /\ ~panicked
    /\ fi.pc = "inc_scl0"
    /\ fi' = [fi EXCEPT !.pc = "inc_sda"]
    /\ UNCHANGED <<sck, mosi, wire, adap_lock>>
    /\ FiFrame /\ FiIrqFrame

\* setscl(bit_data, 0)
incomplete_transfer_scl_low ==
    /\ ~panicked
    /\ fi.pc = "inc_scl0"
    /\ fi_setscl(0)
    /\ fi' = [fi EXCEPT !.pc = "inc_sda"]
    /\ UNCHANGED adap_lock
    /\ FiFrame /\ FiIrqFrame

\* setsda(bit_data, (pattern >> i) & 1)
incomplete_transfer_sda ==
    /\ ~panicked
    /\ fi.pc = "inc_sda"
    /\ fi_setsda(BitAt(fi.pattern, fi.i))
    /\ fi' = [fi EXCEPT !.pc = "inc_scl1"]
    /\ UNCHANGED adap_lock
    /\ FiFrame /\ FiIrqFrame

\* setscl(bit_data, 1); i--
incomplete_transfer_scl_high ==
    /\ ~panicked
    /\ fi.pc = "inc_scl1"
    /\ fi_setscl(1)
    /\ fi' = [fi EXCEPT !.i = fi.i - 1,
                        !.pc = IF fi.i - 1 >= 0 THEN "inc_scl0" ELSE "inc_unlock"]
    /\ UNCHANGED adap_lock
    /\ FiFrame /\ FiIrqFrame

\* i2c_unlock_bus(...); the caller returns 0
incomplete_transfer_unlock ==
    /\ ~panicked
    /\ fi.pc = "inc_unlock"
    /\ i2c_unlock_bus("fi")
    /\ fi' = [fi EXCEPT !.pc = "done", !.ret = 0]
    /\ UNCHANGED <<sck, mosi, wire>>
    /\ FiFrame /\ FiIrqFrame

\* the debugfs call returns to its caller
fops_return ==
    /\ ~panicked
    /\ fi.pc = "done"
    /\ fi' = FiIdle
    /\ wire' = WireIdle
    /\ UNCHANGED <<sck, mosi, adap_lock>>
    /\ FiFrame /\ FiIrqFrame

\* ---------------------------------- interrupt-synchronized fault actions

\* errors the kernel services can answer with: gpiod_to_irq -ENXIO or -EINVAL,
\* request_irq -EBUSY or -EINVAL, gpiod_direction_input / _output -EINVAL

\* seeded fault: the delay check off by one
duration_rejected_late(duration) == duration > MAX_DURATION + 1
\* seeded fault: a failed request_irq leaves without restoring the clock
request_failed_skips_output == "act_unlock"

\* the bound of both delay controls: if (duration > 100 * 1000) return -EINVAL
duration_rejected(duration) == duration > MAX_DURATION

\* fops_lose_arbitration_set / fops_inject_panic_set up to the call of
\* i2c_gpio_fi_act_on_scl_irq: the check, then priv->scl_irq_data = duration
fops_irq_action_set(op, durations) ==
    /\ ~panicked
    /\ fi.pc = "idle"
    /\ op \in Controls     \* the files exist only if (priv->bit_data.getscl)
    /\ \E duration \in durations :
         IF duration_rejected(duration)
         THEN /\ fi' = [FiIdle EXCEPT !.pc = "done", !.op = op, !.arg = duration,
                                      !.ret = -EINVAL]
              /\ UNCHANGED scl_irq_data
         ELSE /\ fi' = [FiIdle EXCEPT !.pc = "act_to_irq", !.op = op, !.arg = duration]
              /\ scl_irq_data' = duration
    /\ wire' = WireIdle
    /\ UNCHANGED <<sck, mosi, adap_lock, completion, irq_armed, panicked, irq>>
    /\ FiFrame

fops_lose_arbitration_set(durations) ==
    fops_irq_action_set("lose_arbitration", durations)
fops_inject_panic_set(durations) ==
    fops_irq_action_set("inject_panic", durations)

\* fops_lose_arbitration_set / fops_inject_panic_set called by a second writer
\* (another open of the file, or the other file) while the first is anywhere
\* in its call: the check and priv->scl_irq_data = duration are done before any
\* lock is taken; the call then goes on into i2c_gpio_fi_act_on_scl_irq, shown
\* as the injector's caller once that one has returned
fops_irq_action_set_second(durations) ==
    /\ ~panicked
    /\ \/ /\ fi2.pc = "idle"
          /\ \E op \in {"lose_arbitration", "inject_panic"} \cap Controls,
                duration \in durations :
               IF duration_rejected(duration)
               THEN UNCHANGED <<fi2, scl_irq_data>>
               ELSE /\ fi2' = [FiIdle EXCEPT !.pc = "act_to_irq", !.op = op,
                                             !.arg = duration]
                    /\ scl_irq_data' = duration
          /\ UNCHANGED <<fi, wire>>
       \/ /\ fi2.pc = "act_to_irq"
          /\ fi.pc = "idle"
          /\ fi' = fi2
          /\ fi2' = FiIdle
          /\ wire' = WireIdle
          /\ UNCHANGED scl_irq_data
    /\ UNCHANGED <<sck, mosi, adap_lock, completion, irq_armed, panicked, irq,
                   dirsw, in_atomic, core, sck2, i2c2, adap_lock2, scl2_is_output_only, probe, scl_held,
                   bus_mutex, busy, scl_is_output_only, i2c, spi, acct>>

\* irq = gpiod_to_irq(priv->scl); if (irq < 0) return irq;
\* i2c_lock_bus(&priv->adap, I2C_LOCK_ROOT_ADAPTER)
act_on_scl_irq_lock ==
    /\ ~panicked
    /\ fi.pc = "act_to_irq"
    /\ \/ /\ i2c_lock_bus("fi")
          /\ fi' = [fi EXCEPT !.pc = "act_dir_in"]
       \/ \E e \in {-ENXIO, -EINVAL} :
            /\ fi' = [fi EXCEPT !.pc = "done", !.ret = e, !.how = "no_irq"]
            /\ UNCHANGED adap_lock
    /\ UNCHANGED <<sck, mosi, wire>>
    /\ FiFrame /\ FiIrqFrame

\* ret = gpiod_direction_input(priv->scl); if (ret) goto unlock;
act_on_scl_irq_direction_input ==
    /\ ~panicked
    /\ fi.pc = "act_dir_in"
    /\ \/ /\ sck' = gpiod_direction_input(sck)
          /\ fi' = [fi EXCEPT !.pc = "act_reinit"]
          /\ wire' = [wire EXCEPT !.ops = 1]
       \/ \E e \in {-EINVAL} :
            /\ fi' = [fi EXCEPT !.pc = "act_unlock", !.ret = e, !.how = "dir_rejected"]
            /\ UNCHANGED <<sck, wire>>
    /\ UNCHANGED <<mosi, adap_lock>>
    /\ FiFrame /\ FiIrqFrame

\* reinit_completion(&priv->scl_irq_completion)
act_on_scl_irq_reinit ==
    /\ ~panicked
    /\ fi.pc = "act_reinit"
    /\ completion' = 0
    /\ fi' = [fi EXCEPT !.pc = "act_request"]
    /\ UNCHANGED <<sck, mosi, adap_lock, wire, scl_irq_data, irq_armed, panicked, irq>>
    /\ FiFrame

\* where a failed request_irq goes on: if (ret) goto output;
request_failed_target == "act_output"

\* ret = request_irq(irq, handler, IRQF_TRIGGER_FALLING, ...); if (ret) goto output;
act_on_scl_irq_request ==
    /\ ~panicked
    /\ fi.pc = "act_request"
    /\ \/ /\ irq_armed' = (IF fi.op = "lose_arbitration" THEN "lose_arbitration_irq"
                                                          ELSE "inject_panic_irq")
          /\ irq' = IrqOff
          /\ fi' = [fi EXCEPT !.pc = "act_wait"]
       \/ \E e \in {-EBUSY, -EINVAL} :
            /\ fi' = [fi EXCEPT !.pc = request_failed_target, !.ret = e,
                                !.how = "request_failed"]
            /\ UNCHANGED <<irq_armed, irq>>
    /\ UNCHANGED <<sck, mosi, adap_lock, wire, scl_irq_data, completion, panicked>>
    /\ FiFrame

\* wait_for_completion_interruptible(...) returns 0: the completion was signalled
act_on_scl_irq_wait_done ==
    /\ ~panicked
    /\ fi.pc = "act_wait"
    /\ completion > 0
    /\ completion' = completion - 1
    /\ fi' = [fi EXCEPT !.pc = "act_free", !.how = "handled"]
    /\ UNCHANGED <<sck, mosi, adap_lock, wire, scl_irq_data, irq_armed, panicked, irq>>
    /\ FiFrame

\* the value wait_for_completion_interruptible returned is not kept: ret stays
\* what request_irq returned
wait_result(ret, waited) == ret

\* wait_for_completion_interruptible(...) returns -ERESTARTSYS: a signal
\* ended the wait
act_on_scl_irq_wait_signal ==
    /\ ~panicked
    /\ fi.pc = "act_wait"
    /\ completion = 0
    /\ fi' = [fi EXCEPT !.pc = "act_free", !.how = "cancelled",
                        !.ret = wait_result(fi.ret, "-ERESTARTSYS")]
    /\ UNCHANGED <<sck, mosi, adap_lock, wire>>
    /\ FiFrame /\ FiIrqFrame

\* seeded fault: the interrupt is left armed
act_on_scl_irq_free_kept ==
    /\ ~panicked
    /\ fi.pc = "act_free"
    /\ irq.pc = "off"
    /\ fi' = [fi EXCEPT !.pc = "act_output"]
    /\ UNCHANGED <<sck, mosi, adap_lock, wire>>
    /\ FiFrame /\ FiIrqFrame

\* free_irq(irq, priv): waits for a running handler, then disarms
act_on_scl_irq_free ==
    /\ ~panicked
    /\ fi.pc = "act_free"
    /\ irq.pc = "off"
    /\ irq_armed' = "none"
    /\ irq' = IrqOff
    /\ fi' = [fi EXCEPT !.pc = "act_output"]
    /\ UNCHANGED <<sck, mosi, adap_lock, wire, scl_irq_data, completion, panicked>>
    /\ FiFrame

\* ret = gpiod_direction_output(priv->scl, 1) ?: ret;
output_result(out_err, ret) == IF out_err # 0 THEN out_err ELSE ret

act_on_scl_irq_output ==
    /\ ~panicked
    /\ fi.pc = "act_output"
    /\ \/ /\ sck' = gpiod_direction_output(sck, 1)
          /\ fi' = [fi EXCEPT !.pc = "act_unlock", !.ret = output_result(0, fi.ret)]
       \/ \E e \in {-EINVAL} :
            /\ fi' = [fi EXCEPT !.pc = "act_unlock", !.out_err = e,
                                !.ret = output_result(e, fi.ret)]
            /\ UNCHANGED sck
    /\ wire' = [wire EXCEPT !.ops = 1]
    /\ UNCHANGED <<mosi, adap_lock>>
    /\ FiFrame /\ FiIrqFrame

\* i2c_unlock_bus(...); return ret;
act_on_scl_irq_unlock ==
    /\ ~panicked
    /\ fi.pc = "act_unlock"
    /\ i2c_unlock_bus("fi")
    /\ fi' = [fi EXCEPT !.pc = "done"]
    /\ UNCHANGED <<sck, mosi, wire>>
    /\ FiFrame /\ FiIrqFrame

\* a falling edge of the clock line while the interrupt is armed
\* (IRQF_TRIGGER_FALLING): the registered handler is entered
scl_falling_edge ==
    /\ ~panicked
    /\ irq_armed # "none"
    /\ irq.pc = "off"
    /\ irq.runs < MaxEdges
    /\ irq' = [pc |-> "entry", handler |-> irq_armed, runs |-> irq.runs + 1]
    /\ UNCHANGED <<sck, mosi, adap_lock, wire, fi, scl_irq_data, completion,
                   irq_armed, panicked>>
    /\ FiFrame

\* lose_arbitration_irq: setsda(&priv->bit_data, 0)
lose_arbitration_irq_low ==
    /\ ~panicked
    /\ irq.pc = "entry" /\ irq.handler = "lose_arbitration_irq"
    /\ fi_setsda(0)
    /\ irq' = [irq EXCEPT !.pc = "delay"]
    /\ UNCHANGED <<adap_lock, fi, scl_irq_data, completion, irq_armed, panicked>>
    /\ FiFrame

\* lose_arbitration_irq: udelay(priv->scl_irq_data); setsda(&priv->bit_data, 1)
lose_arbitration_irq_release ==
    /\ ~panicked
    /\ irq.pc = "delay"
    /\ fi_setsda(1)
    /\ irq' = [irq EXCEPT !.pc = "complete"]
    /\ UNCHANGED <<adap_lock, fi, scl_irq_data, completion, irq_armed, panicked>>
    /\ FiFrame

\* lose_arbitration_irq: complete(&priv->scl_irq_completion); return IRQ_HANDLED
lose_arbitration_irq_complete ==
    /\ ~panicked
    /\ irq.pc = "complete"
    /\ completion' = completion + 1
    /\ irq' = [irq EXCEPT !.pc = "off"]
    /\ UNCHANGED <<sck, mosi, adap_lock, wire, fi, scl_irq_data, irq_armed, panicked>>
    /\ FiFrame

\* inject_panic_irq: udelay(priv->scl_irq_data); panic(...): nothing runs after it
inject_panic_irq ==
    /\ ~panicked
    /\ irq.pc = "entry" /\ irq.handler = "inject_panic_irq"
    /\ panicked' = TRUE
    /\ irq' = [irq EXCEPT !.pc = "panic"]
    /\ UNCHANGED <<sck, mosi, adap_lock, wire, fi, scl_irq_data, completion, irq_armed>>
    /\ FiFrame

\* --------------------------------------------------------- two-wire engine

I2cIdle == [pc |-> "idle", addr |-> 0, byte |-> 0, i |-> 0, left |-> 0,
            acked |-> 0, ret |-> 0]

I2cFrame == UNCHANGED <<fi2, dirsw, in_atomic, core, scl2_is_output_only, probe, scl_held, busy, scl_is_output_only, scl_irq_data, completion, irq_armed,
                        panicked, spi, fi, irq, wire>>

\* i2c_gpio_setsda_val / i2c_gpio_setscl_val
i2c_gpio_setsda_val(state) == citrus_core_set_i2c_sda(state)
i2c_gpio_setscl_val(state) == citrus_core_set_i2c_scl(state)
\* i2c_gpio_getsda / i2c_gpio_getscl
i2c_gpio_getsda == citrus_core_get_i2c_sda
i2c_gpio_getscl == IF scl_held THEN {0} ELSE citrus_core_get_i2c_scl
\* i2c_gpio_setscl2_val / i2c_gpio_getscl2
\* through citrus_core_set_i2c_scl2 / citrus_core_get_i2c_scl2 on citrus->sck2
i2c_gpio_setscl2_val(state) == sck2' = gpiod_set_value(sck2, state)
i2c_gpio_getscl2 == Readable(sck2)

\* the two adapters: 1 from i2c_citrus_probe(dev, citrus, false), 2 from
\* i2c_citrus_probe(dev, citrus, true)
bus(b) == IF b = 2 THEN i2c2 ELSE i2c
owner(b) == IF b = 2 THEN "i2c2" ELSE "i2c"
output_only(b) == IF b = 2 THEN scl2_is_output_only ELSE scl_is_output_only
set_bus(b, rec) ==
    IF b = 2 THEN i2c2' = rec /\ UNCHANGED i2c
               ELSE i2c' = rec /\ UNCHANGED i2c2

\* seeded fault: both adapters given the first clock's hook
setscl_hook_first(second) == "i2c_gpio_setscl_val"
\* bit_data->setscl = scl2 ? i2c_gpio_setscl2_val : i2c_gpio_setscl_val
setscl_hook(second) ==
    IF second THEN "i2c_gpio_setscl2_val" ELSE "i2c_gpio_setscl_val"

\* adap->algo_data->setscl(data, state)
setscl(b, state) ==
    IF setscl_hook(b = 2) = "i2c_gpio_setscl2_val"
    THEN i2c_gpio_setscl2_val(state) /\ UNCHANGED sck
    ELSE i2c_gpio_setscl_val(state) /\ UNCHANGED sck2
\* adap->algo_data->getscl(data), with
\* bit_data->getscl = scl2 ? i2c_gpio_getscl2 : i2c_gpio_getscl
getscl(b) == IF b = 2 THEN i2c_gpio_getscl2 ELSE i2c_gpio_getscl

\* the bus lock of the adapter the transfer is on
lock_adapter(b) ==
    IF b = 2 THEN adap_lock2 = Free /\ adap_lock2' = owner(b) /\ UNCHANGED adap_lock
               ELSE i2c_lock_bus(owner(b)) /\ UNCHANGED adap_lock2
unlock_adapter(b) ==
    IF b = 2 THEN adap_lock2' = Free /\ UNCHANGED adap_lock
               ELSE i2c_unlock_bus(owner(b)) /\ UNCHANGED adap_lock2

\* i2c_transfer(adap, msgs, 1), a write of MaxBytes bytes to a 7-bit address:
\* the i2c core takes the adapter's bus lock around master_xfer (bit_xfer)
i2c_transfer_lock(b) ==
    /\ ~panicked
    /\ bus(b).pc = "idle"
    /\ lock_adapter(b)
    /\ \E addr \in {80}, data \in {165} :
         set_bus(b, [I2cIdle EXCEPT !.pc = "pre_xfer", !.addr = addr,
                                !.byte = data, !.left = MaxBytes])
    /\ UNCHANGED <<sck, sck2, mosi, bus_mutex>>
    /\ UNCHANGED acct
    /\ I2cFrame

\* i2c_gpio_pre_xfer: citrus_core_lock_i2c(priv->citrus_core); return 0
i2c_gpio_pre_xfer(b) ==
    /\ ~panicked
    /\ bus(b).pc = "pre_xfer"
    /\ citrus_core_lock_i2c(owner(b))
    /\ set_bus(b, [bus(b) EXCEPT !.pc = "start_sda"])
    /\ UNCHANGED <<sck, sck2, mosi, adap_lock, adap_lock2>>
    /\ I2cFrame

\* START: data line pulled low (while the clock is high)
bit_xfer_start_sda(b) ==
    /\ ~panicked
    /\ bus(b).pc = "start_sda"
    /\ i2c_gpio_setsda_val(0)
    /\ set_bus(b, [bus(b) EXCEPT !.pc = "start_scl"])
    /\ UNCHANGED <<sck, sck2, bus_mutex, adap_lock, adap_lock2>>
    /\ UNCHANGED acct
    /\ I2cFrame

\* START: then the clock is driven low; the address byte is next, MSB first
bit_xfer_start_scl(b) ==
    /\ ~panicked
    /\ bus(b).pc = "start_scl"
    /\ setscl(b, 0)
    /\ set_bus(b, [bus(b) EXCEPT !.pc = "bit_sda", !.i = 7])
    /\ UNCHANGED <<mosi, bus_mutex, adap_lock, adap_lock2>>
    /\ UNCHANGED acct
    /\ I2cFrame

\* the byte being shifted: the address byte first (the 7-bit address and the
\* write bit), the data bytes after it
current_byte(b) == IF bus(b).acked = 0 THEN bus(b).addr * 2 ELSE bus(b).byte

\* a bit: with the clock low, the data line is set
bit_xfer_bit_sda(b) ==
    /\ ~panicked
    /\ bus(b).pc = "bit_sda"
    /\ i2c_gpio_setsda_val(BitAt(current_byte(b), bus(b).i))
    /\ set_bus(b, [bus(b) EXCEPT !.pc = "bit_sclhi"])
    /\ UNCHANGED <<sck, sck2, bus_mutex, adap_lock, adap_lock2>>
    /\ UNCHANGED acct
    /\ I2cFrame

\* a bit or the ACK slot: the clock is released high; with a readable clock
\* line (bit_data->getscl set) the engine then polls it for clock stretching
bit_xfer_sclhi(b) ==
    /\ ~panicked
    /\ bus(b).pc \in {"bit_sclhi", "ack_sclhi"}
    /\ setscl(b, 1)
    /\ set_bus(b, [bus(b) EXCEPT !.pc =
          IF ~has_getscl(output_only(b))
          THEN (IF bus(b).pc = "bit_sclhi" THEN "bit_scllo" ELSE "ack_get")
          ELSE (IF bus(b).pc = "bit_sclhi" THEN "bit_stretch" ELSE "ack_stretch")])
    /\ UNCHANGED <<mosi, bus_mutex, adap_lock, adap_lock2>>
    /\ UNCHANGED acct
    /\ I2cFrame

\* seeded fault: a clock still low at the deadline is polled again
stretch_timeout_retries(rec) ==
    [rec EXCEPT !.pc = IF rec.pc = "bit_stretch" THEN "bit_sclhi" ELSE "ack_sclhi"]
\* the clock is still low when the timeout has elapsed: ClockStretchTimeout,
\* the transaction goes to its STOP
stretch_timeout(rec) == [rec EXCEPT !.pc = "stop_sdalo", !.ret = -ETIMEDOUT]

\* clock stretching: getscl reads high and the engine goes on, or the line is
\* still low when the configured timeout has elapsed and the transaction fails
bit_xfer_stretch(b) ==
    /\ ~panicked
    /\ bus(b).pc \in {"bit_stretch", "ack_stretch"}
    /\ \E level \in getscl(b) :
         set_bus(b, IF level = 1
                THEN [bus(b) EXCEPT !.pc = IF bus(b).pc = "bit_stretch" THEN "bit_scllo"
                                                                  ELSE "ack_get"]
                ELSE stretch_timeout(bus(b)))
    /\ UNCHANGED <<sck, sck2, mosi, bus_mutex, adap_lock, adap_lock2>>
    /\ UNCHANGED acct
    /\ I2cFrame

\* a bit: the clock is driven low again; after 8 bits the ACK slot follows
bit_xfer_bit_scllo(b) ==
    /\ ~panicked
    /\ bus(b).pc = "bit_scllo"
    /\ setscl(b, 0)
    /\ set_bus(b, IF bus(b).i = 0 THEN [bus(b) EXCEPT !.pc = "ack_sdahi"]
                           ELSE [bus(b) EXCEPT !.pc = "bit_sda", !.i = bus(b).i - 1])
    /\ UNCHANGED <<mosi, bus_mutex, adap_lock, adap_lock2>>
    /\ UNCHANGED acct
    /\ I2cFrame

\* the ACK slot: the data line is released
bit_xfer_ack_sdahi(b) ==
    /\ ~panicked
    /\ bus(b).pc = "ack_sdahi"
    /\ i2c_gpio_setsda_val(1)
    /\ set_bus(b, [bus(b) EXCEPT !.pc = "ack_sclhi"])
    /\ UNCHANGED <<sck, sck2, bus_mutex, adap_lock, adap_lock2>>
    /\ UNCHANGED acct
    /\ I2cFrame

\* seeded fault: a missing ACK that is not reported
nack_result_swallowed(acked) == 0
\* the result of a missing ACK: AddressNack after the address byte, DataNack
\* after a data byte
nack_result(acked) == IF acked = 0 THEN -ENXIO ELSE -EBUSY

\* the ACK slot: the data line is sampled; low is ACK, high is NACK
bit_xfer_ack_get(b) ==
    /\ ~panicked
    /\ bus(b).pc = "ack_get"
    /\ \E level \in i2c_gpio_getsda :
         set_bus(b, IF level = 0
                THEN [bus(b) EXCEPT !.pc = "ack_scllo", !.acked = bus(b).acked + 1]
                ELSE [bus(b) EXCEPT !.pc = "ack_scllo",
                                 !.ret = nack_result(bus(b).acked)])
    /\ UNCHANGED <<sck, sck2, mosi, bus_mutex, adap_lock, adap_lock2>>
    /\ UNCHANGED acct
    /\ I2cFrame

\* the ACK slot ends: clock low; the next byte, or STOP at the end or on a NACK
bit_xfer_ack_scllo(b) ==
    /\ ~panicked
    /\ bus(b).pc = "ack_scllo"
    /\ setscl(b, 0)
    /\ set_bus(b, IF bus(b).ret = 0 /\ bus(b).left > 0
              THEN [bus(b) EXCEPT !.pc = "bit_sda", !.i = 7, !.left = bus(b).left - 1]
              ELSE [bus(b) EXCEPT !.pc = "stop_sdalo"])
    /\ UNCHANGED <<mosi, bus_mutex, adap_lock, adap_lock2>>
    /\ UNCHANGED acct
    /\ I2cFrame

\* STOP: data low, clock high, then the data line released while the clock is high
bit_xfer_stop_sdalo(b) ==
    /\ ~panicked
    /\ bus(b).pc = "stop_sdalo"
    /\ i2c_gpio_setsda_val(0)
    /\ set_bus(b, [bus(b) EXCEPT !.pc = "stop_sclhi"])
    /\ UNCHANGED <<sck, sck2, bus_mutex, adap_lock, adap_lock2>>
    /\ UNCHANGED acct
    /\ I2cFrame

bit_xfer_stop_sclhi(b) ==
    /\ ~panicked
    /\ bus(b).pc = "stop_sclhi"
    /\ setscl(b, 1)
    /\ set_bus(b, [bus(b) EXCEPT !.pc = "stop_sdahi"])
    /\ UNCHANGED <<mosi, bus_mutex, adap_lock, adap_lock2>>
    /\ UNCHANGED acct
    /\ I2cFrame

bit_xfer_stop_sdahi(b) ==
    /\ ~panicked
    /\ bus(b).pc = "stop_sdahi"
    /\ i2c_gpio_setsda_val(1)
    /\ set_bus(b, [bus(b) EXCEPT !.pc = "post_xfer"])
    /\ UNCHANGED <<sck, sck2, bus_mutex, adap_lock, adap_lock2>>
    /\ UNCHANGED acct
    /\ I2cFrame

\* i2c_gpio_post_xfer: citrus_core_unlock_i2c(priv->citrus_core)
i2c_gpio_post_xfer(b) ==
    /\ ~panicked
    /\ bus(b).pc = "post_xfer"
    /\ mutex_unlock(owner(b))
    /\ set_bus(b, [bus(b) EXCEPT !.pc = "unlock_adapter"])
    /\ UNCHANGED <<sck, sck2, mosi, adap_lock, adap_lock2>>
    /\ I2cFrame

\* i2c_transfer: the i2c core drops the adapter's bus lock and returns the
\* result to the client
i2c_transfer_unlock(b) ==
    /\ ~panicked
    /\ bus(b).pc = "unlock_adapter"
    /\ unlock_adapter(b)
    /\ set_bus(b, I2cIdle)
    /\ acct' = [acct EXCEPT ![owner(b)] = NoAcct]
    /\ UNCHANGED <<sck, sck2, mosi, bus_mutex>>
    /\ I2cFrame

\* ----------------------------------------------------------- specifications

\* citrus_core_request: both lines are requested GPIOD_OUT_LOW_OPEN_DRAIN;
\* citrus_core_probe: mutex_init(&citrus->bus_mutex)
LineAfterRequest == [dir |-> "out", val |-> 0]

Unprobed(delay_us, timeout_ms) ==
    [pc |-> "probe", delay_us |-> delay_us, timeout_ms |-> timeout_ms,
     udelay |-> 0, timeout |-> 0, getscl |-> FALSE, files |-> {}]

\* i2c_citrus_probe: properties read, bit_data filled, controls created
Probed(rec, timeout) ==
    [rec EXCEPT !.pc = "bound",
                !.udelay = bit_udelay(pdata_udelay(rec.delay_us),
                                      scl_is_output_only),
                !.timeout = IF timeout # 0 THEN timeout ELSE HZ \div 10,
                !.getscl = has_getscl(scl_is_output_only),
                !.files = debugfs_files(has_getscl(scl_is_output_only))]

InitCore ==
    /\ sck2 = LineAfterRequest
    /\ i2c2 = I2cIdle
    /\ adap_lock2 = Free
    /\ bus_mutex = Free
    /\ adap_lock = Free
    /\ busy = 0
    /\ scl_is_output_only \in BOOLEAN
    /\ scl_irq_data = 0
    /\ completion = 0
    /\ irq_armed = "none"
    /\ panicked = FALSE
    /\ i2c = I2cIdle
    /\ spi = SpiIdle
    /\ fi = FiIdle
    /\ fi2 = FiIdle
    /\ dirsw = DirIdle
    /\ in_atomic = FALSE
    /\ core = [pc |-> "done", ret |-> 0, mutex_inits |-> 1,
               registered |-> <<"spi", "i2c">>, two_bus |-> FALSE,
               lines |-> {"mosi", "sck"}, nodes |-> {"spi-citrus", "i2c-citrus"}]
    /\ irq = IrqOff
    /\ wire = WireIdle
    /\ acct = [t \in Engines |-> NoAcct]
    /\ scl_held \in BOOLEAN

\* a device tree without the optional second adapter, no property set
InitCommon ==
    /\ InitCore
    /\ scl2_is_output_only = FALSE
    /\ probe = Probed(Unprobed(Absent, Absent), 0)

Init ==
    /\ sck = LineAfterRequest
    /\ mosi = LineAfterRequest
    /\ InitCommon
    /\ ~scl_is_output_only
    /\ ~scl_held

\* the same, for either setting of i2c-gpio,scl-output-only
ConfigInit ==
    /\ sck = LineAfterRequest
    /\ mosi = LineAfterRequest
    /\ InitCommon
    /\ ~scl_held

\* arguments written to the fault injector's controls

SpiNext(orders, widths) ==
    \/ spi_citrus_prepare_hardware(orders, widths)
    \/ spi_citrus_prepare_busy
    \/ spi_citrus_chipselect_on
    \/ spi_citrus_set_direction
    \/ txrx_setup
    \/ txrx_leading_edge
    \/ txrx_trailing_edge
    \/ spi_citrus_chipselect_off
    \/ spi_citrus_unprepare_busy
    \/ spi_citrus_unprepare_hardware
    \/ spi_complete

I2cBus(b) ==
    \/ i2c_transfer_lock(b)
    \/ i2c_gpio_pre_xfer(b)
    \/ bit_xfer_start_sda(b)
    \/ bit_xfer_start_scl(b)
    \/ bit_xfer_bit_sda(b)
    \/ bit_xfer_sclhi(b)
    \/ bit_xfer_stretch(b)
    \/ bit_xfer_bit_scllo(b)
    \/ bit_xfer_ack_sdahi(b)
    \/ bit_xfer_ack_get(b)
    \/ bit_xfer_ack_scllo(b)
    \/ bit_xfer_stop_sdalo(b)
    \/ bit_xfer_stop_sclhi(b)
    \/ bit_xfer_stop_sdahi(b)
    \/ i2c_gpio_post_xfer(b)
    \/ i2c_transfer_unlock(b)

I2cNext == I2cBus(1)

FiNext(addrs, durations) ==
    \/ fops_wire_lock
    \/ fops_wire_get
    \/ fops_wire_set
    \/ fops_wire_unlock
    \/ fops_incomplete_addr_phase_set(addrs)
    \/ fops_incomplete_write_byte_set(addrs)
    \/ incomplete_transfer_start
    \/ incomplete_transfer_scl_low
    \/ incomplete_transfer_sda
    \/ incomplete_transfer_scl_high
    \/ incomplete_transfer_unlock
    \/ fops_lose_arbitration_set(durations)
    \/ fops_inject_panic_set(durations)
    \/ act_on_scl_irq_lock
    \/ act_on_scl_irq_direction_input
    \/ act_on_scl_irq_reinit
    \/ act_on_scl_irq_request
    \/ act_on_scl_irq_wait_done
    \/ act_on_scl_irq_wait_signal
    \/ act_on_scl_irq_free
    \/ act_on_scl_irq_output
    \/ act_on_scl_irq_unlock
    \/ scl_falling_edge
    \/ lose_arbitration_irq_low
    \/ lose_arbitration_irq_release
    \/ lose_arbitration_irq_complete
    \/ inject_panic_irq
    \/ fops_return

\* the whole driver: the two engines and the fault injector, concurrently
Next ==
    \/ SpiNext({FALSE}, {ConcBits})
    \/ I2cNext
    \/ FiNext({58, MAX_ADDR + 1}, {10, MAX_DURATION + 1})

Spec == Init /\ [][Next]_vars

\* the fault injector on its own, from every level the two lines can be left
\* at, for every address and for delays around the bound
LineStates == {[dir |-> "out", val |-> 0], [dir |-> "out", val |-> 1],
               [dir |-> "in", val |-> 1]}

FaultInit ==
    /\ sck \in LineStates
    /\ mosi \in LineStates
    /\ InitCommon
    /\ ~scl_held

FaultSpec == FaultInit /\ [][FiNext(0 .. (MAX_ADDR + 2),
                 {0, 10, MAX_DURATION, MAX_DURATION + 1, 2 * MAX_DURATION})]_vars

\* the fault injector with two writers of its delay controls
RaceSpec == FaultInit /\ [][FiNext({58}, {10, 20, MAX_DURATION + 1})
                              \/ fops_irq_action_set_second({10, 20, MAX_DURATION + 1})]_vars

\* ---- citrus_core_probe, step by step.  core.two_bus tells which core is
\* built (the one with sck2 and the second adapter, or the one without),
\* core.lines the lines the device tree gives the core, core.nodes its child
\* nodes that are present and available; core.mutex_inits counts mutex_init
\* calls on bus_mutex, core.registered lists the engines registered so far.

\* mutex_init(&citrus->bus_mutex)
mutex_init(c) == [c EXCEPT !.mutex_inits = @ + 1]

citrus_core_probe ==
    LET fail(e) == [core EXCEPT !.pc = "done", !.ret = e, !.registered = <<>>] IN
    /\ core.pc # "done"
    /\ core' =
         CASE core.pc = "start" ->
                \* citrus = devm_kzalloc(...); mutex_init(&citrus->bus_mutex)
                [mutex_init(core) EXCEPT !.pc = "request"]
           [] core.pc = "request" ->
                \* citrus_core_request: devm_gpiod_get of mosi, sck and, in
                \* the two-bus core, sck2; the first error is returned
                IF /\ {"mosi", "sck"} \subseteq core.lines
                   /\ core.two_bus => "sck2" \in core.lines
                THEN [core EXCEPT !.pc = "spi"]
                ELSE fail(-2)
           [] core.pc = "spi" ->
                \* spi_citrus_probe: -ENODEV without an available spi-citrus
                \* node, else devm_spi_register_master
                IF "spi-citrus" \in core.nodes
                THEN [core EXCEPT !.pc = "i2c", !.registered = Append(@, "spi")]
                ELSE fail(-19)
           [] core.pc = "i2c" ->
                \* i2c_citrus_probe (scl2 = false): -ENODEV without an
                \* available i2c-citrus node, else i2c_bit_add_numbered_bus
                IF "i2c-citrus" \in core.nodes
                THEN [core EXCEPT !.pc = IF core.two_bus THEN "i2c2" ELSE "done",
                                  !.registered = Append(@, "i2c")]
                ELSE fail(-19)
           [] core.pc = "i2c2" ->
                \* i2c_citrus_probe (scl2 = true);
                \* if (result && result != -ENODEV) return result;
                LET result == IF "i2c-citrus2" \in core.nodes THEN 0 ELSE -19 IN
                IF result # 0 /\ result # -19
                THEN fail(result)
                ELSE [core EXCEPT !.pc = "done",
                                  !.registered = IF result = 0 THEN Append(@, "i2c2") ELSE @]
    /\ UNCHANGED <<sck, mosi, bus_mutex, adap_lock, busy, scl_is_output_only,
                   scl_irq_data, completion, irq_armed, panicked, i2c, spi,
                   fi, fi2, dirsw, in_atomic, irq, scl_held, wire, acct, sck2, i2c2,
                   adap_lock2, scl2_is_output_only, probe>>

\* the allocations and registrations of the probe can fail for want of memory
citrus_core_probe_enomem ==
    /\ core.pc \in {"start", "spi", "i2c", "i2c2"}
    /\ core.pc = "i2c2" => "i2c-citrus2" \in core.nodes
    /\ core' = [core EXCEPT !.pc = "done", !.ret = -12, !.registered = <<>>]
    /\ UNCHANGED <<sck, mosi, bus_mutex, adap_lock, busy, scl_is_output_only,
                   scl_irq_data, completion, irq_armed, panicked, i2c, spi,
                   fi, fi2, dirsw, in_atomic, irq, scl_held, wire, acct, sck2, i2c2,
                   adap_lock2, scl2_is_output_only, probe>>

\* a platform device is bound: either core, every device tree
CoreInit ==
    /\ sck = LineAfterRequest
    /\ mosi = LineAfterRequest
    /\ sck2 = LineAfterRequest
    /\ i2c2 = I2cIdle
    /\ adap_lock2 = Free
    /\ bus_mutex = Free
    /\ adap_lock = Free
    /\ busy = 0
    /\ scl_is_output_only = FALSE
    /\ scl_irq_data = 0
    /\ completion = 0
    /\ irq_armed = "none"
    /\ panicked = FALSE
    /\ i2c = I2cIdle
    /\ spi = SpiIdle
    /\ fi = FiIdle
    /\ fi2 = FiIdle
    /\ dirsw = DirIdle
    /\ in_atomic = FALSE
    /\ irq = IrqOff
    /\ wire = WireIdle
    /\ acct = [t \in Engines |-> NoAcct]
    /\ scl_held = FALSE
    /\ scl2_is_output_only = FALSE
    /\ probe = Probed(Unprobed(Absent, Absent), 0)
    /\ \E two_bus \in BOOLEAN,
          lines \in SUBSET {"mosi", "sck", "sck2"},
          nodes \in SUBSET {"spi-citrus", "i2c-citrus", "i2c-citrus2"} :
         core = [pc |-> "start", ret |-> 0, mutex_inits |-> 0, registered |-> <<>>,
                 two_bus |-> two_bus, lines |-> lines, nodes |-> nodes]

CoreSpec == CoreInit /\ [][citrus_core_probe \/ citrus_core_probe_enomem]_vars

\* the system leaves normal running with interrupts off (late shutdown):
\* from now on i2c_in_atomic_xfer_mode() is true, i2c_transfer tries the
\* adapter's bus lock instead of waiting for it and calls master_xfer_atomic,
\* which i2c-algo-bit serves with bit_xfer when bit_data->can_do_atomic is set.
\* Transfers that are already running were started in the normal mode, so the
\* step is taken between two-wire transfers.
i2c_in_atomic_xfer_mode ==
    /\ ~in_atomic
    /\ i2c.pc = "idle"
    /\ i2c2.pc = "idle"
    /\ in_atomic' = TRUE
    /\ UNCHANGED <<sck, mosi, bus_mutex, adap_lock, busy, scl_is_output_only,
                   scl_irq_data, completion, irq_armed, panicked, i2c, spi,
                   fi, fi2, dirsw, core, irq, scl_held, wire, acct, sck2, i2c2,
                   adap_lock2, scl2_is_output_only, probe>>

\* both two-wire adapters and the four-wire master of one core, before and
\* after the system has entered the atomic transfer mode
AtomicSpec ==
    /\ Init
    /\ [][\/ SpiNext({FALSE}, {1})
          \/ I2cBus(1)
          \/ I2cBus(2)
          \/ i2c_in_atomic_xfer_mode]_vars

\* spi_citrus_set_direction on its own, from every state of the two lines
DirSpec ==
    /\ FaultInit
    /\ [][\/ spi_citrus_set_direction_call
          \/ spi_citrus_set_direction_output
          \/ spi_citrus_set_direction_input
          \/ spi_citrus_set_direction_hiz_lead
          \/ spi_citrus_set_direction_hiz_trail]_vars

\* the two-wire client and the fault injector on one adapter; every thread
\* keeps running, and a waiter for the adapter's bus lock gets it in its turn
\* (the lock is an rt_mutex, handed to its waiter on unlock)
WaitSpec ==
    /\ Init
    /\ [][I2cNext \/ FiNext({58}, {10})]_vars
    /\ WF_vars(FiNext({58}, {10}))
    /\ WF_vars(I2cNext)
    /\ SF_vars(i2c_transfer_lock(1))

\* the two-wire engine on its own, with or without a target that holds the
\* clock low for good; the caller's thread keeps running (weak fairness)
StretchInit ==
    /\ sck = LineAfterRequest
    /\ mosi = LineAfterRequest
    /\ InitCommon

StretchSpec == StretchInit /\ [][I2cNext]_vars /\ WF_vars(I2cNext)

\* the four-wire engine on its own, for every mode, bit order, width and word
\* both two-wire adapters of one core, each with its own client, for every
\* setting of either adapter's scl-output-only
TwoBusInit ==
    /\ sck = LineAfterRequest
    /\ mosi = LineAfterRequest
    /\ InitCore
    /\ scl2_is_output_only \in BOOLEAN
    /\ probe = Probed(Unprobed(Absent, Absent), 0)

TwoBusSpec == TwoBusInit /\ [][I2cBus(1) \/ I2cBus(2)]_vars

i2c_citrus_probe ==
    /\ probe.pc = "probe"
    /\ \E t \in pdata_timeout(probe.timeout_ms) : probe' = Probed(probe, t)
    /\ UNCHANGED <<sck, mosi, bus_mutex, adap_lock, busy, scl_is_output_only,
                   scl_irq_data, completion, irq_armed, panicked, i2c, spi,
                   fi, fi2, dirsw, in_atomic, core, irq, scl_held, wire, acct, sck2, i2c2, adap_lock2,
                   scl2_is_output_only>>

ProbeInit ==
    /\ sck = LineAfterRequest
    /\ mosi = LineAfterRequest
    /\ InitCore
    /\ scl2_is_output_only = FALSE
    /\ ~scl_held
    /\ \E d \in {Absent} \cup {U32(t, l) : t \in {0, 1},
                                             l \in {0, 1, 5, 50, 2147483647}},
          m \in {Absent} \cup {U32(t, l) : t \in {0, 1},
                                             l \in {0, 1, 10, 100, 2147483647}} :
         probe = Unprobed(d, m)

ProbeSpec == ProbeInit /\ [][i2c_citrus_probe]_vars

WordSpec == ConfigInit /\ [][SpiNext(BOOLEAN, 1 .. WordBits)]_vars

\* ------------------------------------------------------------- properties

\* positions of a caller between its acquire and its release of bus_mutex
SpiHolds == spi.pc \in {"prepare_busy", "cs_on", "set_dir", "mosi", "sck_lead",
                        "sck_trail", "cs_off", "unprepare_busy", "unprepare"}
I2cLineOp == i2c.pc \in {"start_sda", "start_scl", "bit_sda", "bit_sclhi", "bit_stretch",
                         "bit_scllo", "ack_sdahi", "ack_sclhi", "ack_stretch", "ack_get",
                         "ack_scllo", "stop_sdalo", "stop_sclhi", "stop_sdahi"}
I2cHolds == I2cLineOp \/ i2c.pc = "post_xfer"
\* positions whose next step sets, reads or redirects a line
FiLineOp ==
    \/ fi.pc \in {"wire_op", "inc_start", "inc_scl0", "inc_sda", "inc_scl1",
                  "act_dir_in", "act_output"}
    \/ irq.pc = "delay"
    \/ irq.pc = "entry" /\ irq.handler = "lose_arbitration_irq"

IrqOps == {"lose_arbitration", "inject_panic"}
IncOps == {"incomplete_addr_phase", "incomplete_write_byte"}
\* the n low bits of x, most significant first
MsbFirst(x, n) == [k \in 1 .. n |-> BitAt(x, n - k)]
DrivenHigh == [dir |-> "out", val |-> 1]

\* C1: in every interleaving of two-wire transactions, four-wire activity and
\* fault-injector calls, at most one engine is between its acquire and its
\* release of bus_mutex, the engine that is there is the holder, and an engine
\* about to set, read or redirect a shared line holds the lock.
C1_MutualExclusion ==
    /\ ~(SpiHolds /\ I2cHolds)
    /\ bus_mutex \in {Free} \cup Engines
    /\ SpiHolds => bus_mutex = "spi"
    /\ I2cHolds => bus_mutex = "i2c"
    /\ spi.pc \in {"cs_on", "set_dir", "mosi", "sck_lead", "sck_trail"}
          => bus_mutex = "spi"
    /\ I2cLineOp => bus_mutex = "i2c"

\* a two-wire transaction waits in pre_xfer while the four-wire engine is in
\* the middle of a word
C1_Contention == spi.pc = "sck_trail" /\ i2c.pc = "pre_xfer" /\ bus_mutex = "spi"

\* C2 (as claimed): the fault injector sets, reads or redirects a line only
\* inside its own bracket of the arbiter lock, so never while an engine holds
\* bus_mutex for a transaction.
C2_InjectorExcluded == FiLineOp => bus_mutex \notin Engines

\* C3: when a transaction of either engine is over, failed or not, its one
\* acquire of bus_mutex has been matched by exactly one release; no engine
\* ever releases more than it acquired or acquires twice; and whenever no
\* transaction is in progress the lock is free, so the next acquire can go on.
C3_ReleasedExactlyOnce ==
    /\ spi.pc = "done" => acct["spi"] = [locks |-> 1, unlocks |-> 1]
    /\ i2c.pc = "unlock_adapter" => acct["i2c"] = [locks |-> 1, unlocks |-> 1]
    /\ \A e \in Engines : acct[e].unlocks <= acct[e].locks /\ acct[e].locks <= 1
    /\ (~SpiHolds /\ ~I2cHolds) => bus_mutex = Free

\* a two-wire transaction that got no ACK for its address and a four-wire
\* transfer whose direction switch was rejected are both over, the lock free
C3_FailedReleased ==
    /\ i2c.pc = "unlock_adapter" /\ i2c.ret = -ENXIO
    /\ spi.pc = "done" /\ spi.ret # 0
    /\ bus_mutex = Free

\* C4 (as claimed): for every mode, bit order, width and word, the word
\* received by a transfer that went through is the word transmitted.
C4_LoopbackEchoes ==
    (spi.pc = "cs_off" /\ spi.ret = 0) => spi.w = Word32(spi.tx)

\* C5: every address in 0..0x7f is accepted by incomplete-address-phase
\* injection; when its loop is over the clock was pulsed exactly 9 times, the
\* data levels set for the pulses are the 9 bits of (A << 2) | 3, most
\* significant first; at no point of the action was a STOP put on the wire.
C5_AddrPhaseFraming ==
    fi.op = "incomplete_addr_phase" =>
        /\ ~wire.stop
        /\ (fi.pc = "done" /\ fi.arg <= 127) => fi.ret = 0
        /\ (fi.pc \in {"inc_unlock", "done"} /\ fi.ret = 0) =>
              /\ wire.pulses = 9
              /\ wire.bits = MsbFirst(fi.arg * 4 + 3, 9)

C5_Injected ==
    /\ fi.pc = "done" /\ fi.op = "incomplete_addr_phase" /\ fi.arg = 58
    /\ wire.pulses = 9 /\ adap_lock = Free

\* C6: every address in 0..0x7f is accepted by incomplete-write-byte
\* injection; when its loop is over exactly 18 bits were shifted out: the 7
\* address bits most significant first, a 0, a 1, eight 0 and a final 1; the
\* data line is left released high and no STOP was put on the wire.
C6_WriteByteFraming ==
    fi.op = "incomplete_write_byte" =>
        /\ ~wire.stop
        /\ (fi.pc = "done" /\ fi.arg <= 127) => fi.ret = 0
        /\ (fi.pc \in {"inc_unlock", "done"} /\ fi.ret = 0) =>
              /\ wire.pulses = 18
              /\ wire.bits = MsbFirst(fi.arg, 7) \o <<0, 1>>
                                \o <<0, 0, 0, 0, 0, 0, 0, 0>> \o <<1>>
              /\ Level(mosi) = 1

C6_Injected ==
    /\ fi.pc = "done" /\ fi.op = "incomplete_write_byte" /\ fi.arg = 58
    /\ Len(wire.bits) = 18 /\ adap_lock = Free

\* C7: a lose-arbitration or fatal-stop call with a delay above 100000 ends
\* in the step that takes it, with -EINVAL, leaving the lines, the adapter
\* lock, the armed interrupt, the completion and the stored delay as they
\* were; a call with a delay of at most 100000 passes the check.
C7_DelayBound ==
    /\ [](fi.op \in IrqOps /\ fi.arg > 100000 =>
            /\ fi.pc = "done" /\ fi.ret = -EINVAL /\ fi.how = "none"
            /\ wire.ops = 0 /\ adap_lock = Free /\ irq_armed = "none")
    /\ [][(fi.pc = "idle" /\ fi'.op \in IrqOps) =>
            IF fi'.arg > 100000
            THEN /\ fi'.pc = "done" /\ fi'.ret = -EINVAL
                 /\ UNCHANGED <<sck, mosi, adap_lock, irq_armed, scl_irq_data, completion>>
            ELSE /\ fi'.pc = "act_to_irq" /\ fi'.ret = 0]_vars

C7_Rejected ==
    /\ fi.pc = "done" /\ fi.op = "inject_panic" /\ fi.arg = 100001
    /\ fi.ret = -EINVAL /\ scl_irq_data = 100000

\* C8: an incomplete-address-phase or incomplete-write-byte call with an
\* address above 0x7f ends in the step that takes it, with -EINVAL: the
\* adapter lock is not taken and neither line is written.
C8_AddressBound ==
    /\ [](fi.op \in IncOps /\ fi.arg > 127 =>
            /\ fi.pc = "done" /\ fi.ret = -EINVAL
            /\ wire.ops = 0 /\ adap_lock = Free)
    /\ [][(fi.pc = "idle" /\ fi'.op \in IncOps /\ fi'.arg > 127) =>
            /\ fi'.pc = "done" /\ fi'.ret = -EINVAL
            /\ UNCHANGED <<sck, mosi, adap_lock>>]_vars

C8_Rejected ==
    /\ fi.pc = "done" /\ fi.op = "incomplete_write_byte" /\ fi.arg = 128
    /\ fi.ret = -EINVAL

\* the interrupt-synchronized action has switched the clock to input and has
\* come to its end on one of the paths that return
ActionReturns ==
    /\ fi.op \in IrqOps /\ fi.pc \in {"act_unlock", "done"}
    /\ fi.how \in {"handled", "request_failed", "cancelled"}

C10_CancelReported ==
    (fi.pc = "done" /\ fi.op \in IrqOps /\ fi.how = "cancelled") => fi.ret # 0

\* C11 (as claimed): between arming the falling-edge interrupt and disarming
\* it, the handler is entered at most once, however many falling edges the
\* clock line has.
C11_FiresOnce == irq.runs <= 1

\* C12 (as claimed): whenever a two-wire transaction or a malformed-framing
\* injection is about to make its START step (data line pulled low), the clock
\* line is high.
C12_StartWithClockHigh ==
    (i2c.pc = "start_sda" \/ fi.pc = "inc_start") => Level(sck) = 1

\* C13: a two-wire write whose address byte gets no ACK ends with AddressNack
\* (-ENXIO): no byte was acknowledged, no data byte was started, and when
\* bit_xfer has returned the one acquire of bus_mutex has been released.  A
\* transaction that ends without any acknowledged byte never reports success.
C13_AddressNack ==
    /\ i2c.ret = -ENXIO => (i2c.acked = 0 /\ i2c.left = MaxBytes)
    /\ (i2c.pc = "unlock_adapter" /\ i2c.acked = 0) =>
          /\ i2c.ret \in {-ENXIO, -ETIMEDOUT}
          /\ i2c.left = MaxBytes
          /\ bus_mutex # "i2c"
          /\ acct["i2c"] = [locks |-> 1, unlocks |-> 1]

C13_Nacked ==
    /\ i2c.pc = "unlock_adapter" /\ i2c.ret = -ENXIO /\ i2c.acked = 0
    /\ bus_mutex = Free

\* C14: with a readable clock line, a poll of the clock either sees it high
\* and goes on or ends the wait with ClockStretchTimeout (-ETIMEDOUT); after
\* a timeout the transaction only makes its STOP and returns, it sends
\* nothing again; and with a target that holds the clock low for good every
\* started transaction comes to its end with -ETIMEDOUT and bus_mutex free.
C14_StretchTimeout ==
    /\ [][i2c.pc \in {"bit_stretch", "ack_stretch"} =>
            \/ i2c'.pc \in {"bit_scllo", "ack_get"} /\ i2c'.ret = i2c.ret
            \/ i2c'.pc = "stop_sdalo" /\ i2c'.ret = -ETIMEDOUT]_i2c
    /\ [](i2c.ret = -ETIMEDOUT =>
            i2c.pc \in {"stop_sdalo", "stop_sclhi", "stop_sdahi", "post_xfer",
                        "unlock_adapter"})
    /\ (~scl_is_output_only /\ scl_held /\ i2c.pc = "start_sda")
          ~> (i2c.pc = "unlock_adapter" /\ i2c.ret = -ETIMEDOUT /\ bus_mutex = Free)

C14_TimedOut ==
    /\ scl_held /\ i2c.pc = "unlock_adapter" /\ i2c.ret = -ETIMEDOUT
    /\ i2c.acked = 0 /\ bus_mutex = Free

\* the configured cell fits a positive int (bit 31 clear), or is absent
FitsInt(cell) == cell = Absent \/ cell.top = 0
Unset(cell) == cell = Absent \/ (cell.top = 0 /\ cell.low = 0)

C16_OutputOnlyNeverPolls ==
    /\ [](probe.getscl = ~scl_is_output_only)
    /\ [](scl_is_output_only => i2c.pc \notin {"bit_stretch", "ack_stretch"})
    /\ [][(~scl_is_output_only /\ i2c.pc \in {"bit_sclhi", "ack_sclhi"})
            => i2c'.pc \in {"bit_stretch", "ack_stretch"}]_i2c

C16_HeldClockIgnored ==
    /\ scl_is_output_only
    /\ scl_held
    /\ ~probe.getscl
    /\ i2c.pc = "unlock_adapter"
    /\ i2c.ret # -ETIMEDOUT

\* C17: the lose-arbitration and fatal-stop controls exist only when the
\* engine has clock read-back, so no interrupt-synchronized fault is ever
\* called, armed or fired on an output-only clock; the incomplete-address,
\* incomplete-write-byte and raw line controls exist in both cases
C17_IrqControlsNeedReadBack ==
    /\ (IncOps \cup {"scl", "sda"}) \subseteq Controls
    /\ Controls = probe.files
    /\ IF scl_is_output_only
       THEN /\ IrqOps \cap Controls = {}
            /\ fi.op \notin IrqOps
            /\ irq_armed = "none"
            /\ irq.runs = 0
       ELSE IrqOps \subseteq Controls

C17_OutputOnlyInjects ==
    /\ scl_is_output_only
    /\ fi.pc = "done"
    /\ fi.op \in IncOps
    /\ fi.ret = 0

\* the word routine is shifting
Shifting(rec) == rec.pc \in {"mosi", "sck_lead", "sck_trail"}

\* C18: chip-select assertion sets the clock to the CPOL idle level (low for
\* CPOL 0, high for CPOL 1) whatever level it had, and no word is shifted
\* before it; chip-select de-assertion changes no line
C18_ChipSelectIdleClock ==
    /\ [][spi.pc = "cs_on" =>
            /\ spi'.pc = "set_dir"
            /\ Level(sck') = spi.cpol
            /\ mosi' = mosi]_spi
    /\ [][(Shifting(spi') /\ ~Shifting(spi)) => spi.pc = "set_dir"]_spi
    /\ [][spi.pc = "cs_off" => (sck' = sck /\ mosi' = mosi)]_spi

\* a two-wire transaction has ended with its STOP, clock high, and the
\* four-wire engine of CPOL 0 has selected its chip: the clock idles low
C18_IdleLowAfterTwoWire ==
    /\ i2c.pc = "unlock_adapter"
    /\ i2c.ret = 0
    /\ spi.pc = "set_dir"
    /\ spi.cpol = 0
    /\ Level(sck) = 0

\* the caller holds the Arbiter lock for a transaction on its bus
Transacting(rec) ==
    rec.pc \in {"start_sda", "start_scl", "bit_sda", "bit_sclhi", "bit_stretch",
                "bit_scllo", "ack_sdahi", "ack_sclhi", "ack_stretch", "ack_get",
                "ack_scllo", "stop_sdalo", "stop_sclhi", "stop_sdahi", "post_xfer"}

\* C19: with two two-wire buses over one data line, a step of a transaction
\* on the first bus never writes scl2 and a step on the second never writes
\* scl, each clock moves only inside a transaction of its own bus, and the
\* transactions of the two buses never overlap: each runs holding the one
\* Arbiter lock
C19_TwoBusesDisjoint ==
    /\ [](~(Transacting(i2c) /\ Transacting(i2c2)))
    /\ [](Transacting(i2c) => bus_mutex = "i2c")
    /\ [](Transacting(i2c2) => bus_mutex = "i2c2")
    /\ [][i2c' # i2c => sck2' = sck2]_vars
    /\ [][i2c2' # i2c2 => sck' = sck]_vars
    /\ [][sck' # sck => (Transacting(i2c) /\ i2c' # i2c)]_vars
    /\ [][sck2' # sck2 => (Transacting(i2c2) /\ i2c2' # i2c2)]_vars

\* the second bus has clocked a whole write out on scl2 while the first bus's
\* caller waits for the lock, the first clock still as it was requested
C19_SecondBusClocked ==
    /\ i2c2.pc = "post_xfer"
    /\ i2c2.ret = 0
    /\ i2c.pc = "pre_xfer"
    /\ Level(sck2) = 1
    /\ sck = LineAfterRequest

\* C20: the Arbiter lock is not re-entrant: while a caller holds it, an
\* acquire by that same caller cannot complete; and no path acquires it
\* while holding it: each engine is at its acquire only when it is not the
\* holder, and the fault injector never acquires it at all
C20_NotReentrant ==
    /\ bus_mutex \in Engines => ~ENABLED mutex_lock(bus_mutex)
    /\ i2c.pc = "pre_xfer" => bus_mutex # "i2c"
    /\ spi.pc = "idle" => bus_mutex # "spi"
    /\ bus_mutex \in {Free} \cup Engines
    /\ \A e \in Engines : acct[e].locks - acct[e].unlocks = (IF bus_mutex = e THEN 1 ELSE 0)

\* the four-wire engine holds the lock at chip-select de-assertion, the
\* two-wire caller waits at its acquire, and an acquire by the holder could
\* not complete
C20_HolderCannotReacquire ==
    /\ bus_mutex = "spi"
    /\ spi.pc = "cs_off"
    /\ i2c.pc = "pre_xfer"
    /\ acct["spi"].locks = 1
    /\ ~ENABLED mutex_lock("spi")

\* C21: the delay an armed interrupt action uses is the delay supplied by the
\* invocation that armed it: when the handler reads the stored delay it is that
\* caller's, whatever a second invocation made meanwhile has supplied
C21_DelayOfArmer ==
    (irq.pc = "delay" \/ (irq.pc = "entry" /\ irq.handler = "inject_panic_irq"))
        => scl_irq_data = fi.arg

\* C22: during malformed-framing injection, after the START step, the data
\* line changes only in the data step of a bit, with the clock low before and
\* after it; each bit is clock low, data set, clock high; no STOP is produced
C22_DataSettledBeforeRise ==
    /\ [][(fi.op \in IncOps /\ fi.pc \in {"inc_scl0", "inc_sda", "inc_scl1", "inc_unlock"}
             /\ mosi' # mosi)
            => (fi.pc = "inc_sda" /\ Level(sck) = 0 /\ sck' = sck)]_vars
    /\ [][fi.pc = "inc_scl0" => (fi'.pc = "inc_sda" /\ Level(sck') = 0)]_fi
    /\ [][fi.pc = "inc_sda" => fi'.pc = "inc_scl1"]_fi
    /\ [][fi.pc = "inc_scl1" => Level(sck') = 1]_fi
    /\ [](fi.op \in IncOps => ~wire.stop)

\* the data line, low since the START, was raised for a later bit of the
\* pattern while the clock is low
C22_DataRaisedClockLow ==
    /\ fi.op \in IncOps
    /\ fi.pc = "inc_scl1"
    /\ wire.pulses >= 1
    /\ Level(mosi) = 1
    /\ Level(sck) = 0

\* C23: an interrupt-synchronized fault action goes through its steps in
\* order: lock acquired, clock switched to input, completion reset, interrupt
\* armed, wait, interrupt disarmed, clock restored to output high, lock
\* released; the interrupt is armed only while the lock is held and the clock
\* is an input, and it is disarmed before the clock is driven again
C23_ActionStepsOrdered ==
    /\ [][fi.op \in IrqOps =>
            <<fi.pc, fi'.pc>> \in
               {<<"act_to_irq", "act_dir_in">>, <<"act_to_irq", "done">>,
                <<"act_dir_in", "act_reinit">>, <<"act_dir_in", "act_unlock">>,
                <<"act_reinit", "act_request">>,
                <<"act_request", "act_wait">>, <<"act_request", "act_output">>,
                <<"act_wait", "act_free">>, <<"act_free", "act_output">>,
                <<"act_output", "act_unlock">>, <<"act_unlock", "done">>,
                <<"done", "idle">>}]_fi
    /\ [](fi.pc \in {"act_dir_in", "act_reinit", "act_request", "act_wait",
                     "act_free", "act_output", "act_unlock"} => adap_lock = "fi")
    /\ [](fi.pc \in {"act_reinit", "act_request", "act_wait", "act_free",
                     "act_output"} => sck.dir = "in")
    /\ [](fi.pc = "act_request" => completion = 0)
    /\ [](irq_armed # "none" <=> fi.pc \in {"act_wait", "act_free"})
    /\ [](irq_armed # "none" => (adap_lock = "fi" /\ sck.dir = "in"))
    /\ [][sck' # sck => (irq_armed = "none" /\ irq_armed' = "none")]_vars
    /\ [][(fi.pc = "act_unlock" /\ fi'.pc = "done") => adap_lock' = Free]_fi

\* the interrupt was handled and disarmed and the clock is an output driven
\* high again, the lock still held
C23_RestoredUnderLock ==
    /\ fi.pc = "act_unlock"
    /\ fi.how = "handled"
    /\ irq_armed = "none"
    /\ sck = DrivenHigh
    /\ adap_lock = "fi"

\* C24: every return from an interrupt-synchronized fault action that took
\* the lock (direction switch rejected, registration failed, wait cancelled,
\* interrupt handled) leaves the lock released and no interrupt armed; when
\* the interrupt line is unavailable the action returns without having taken
\* the lock or changed a line
C24_ReturnsReleased ==
    /\ [](fi.op \in IrqOps /\ fi.pc = "done" =>
            /\ adap_lock = Free
            /\ irq_armed = "none"
            /\ fi.how \in {"none", "no_irq", "dir_rejected", "request_failed",
                           "cancelled", "handled"}
            /\ fi.how \in {"none", "no_irq"} => wire.ops = 0)
    /\ [][(fi.pc = "act_to_irq" /\ fi'.pc = "done") =>
            /\ fi'.how = "no_irq" /\ fi'.ret < 0
            /\ adap_lock = Free
            /\ UNCHANGED <<sck, mosi, adap_lock, irq_armed>>]_fi

C24_RejectedSwitchReleased ==
    /\ fi.op \in IrqOps
    /\ fi.pc = "done"
    /\ fi.how = "dir_rejected"
    /\ fi.ret = -EINVAL
    /\ adap_lock = Free
    /\ irq_armed = "none"

\* C25: whenever the caller of lose-arbitration resumes from its wait after a
\* handled interrupt, the handler has released the data line
C25_ReleasedOnResume ==
    (fi.op = "lose_arbitration" /\ fi.pc = "act_free" /\ fi.how = "handled")
        => (irq.pc = "off" /\ Level(mosi) = 1)

\* C26 (as stated): once the interrupt of a waiting fault action fires, a
\* two-wire transaction requested meanwhile eventually proceeds
C26_ProceedsOnceFired == irq.pc = "entry" ~> i2c.pc # "idle"

\* C26: a two-wire transaction requested while an interrupt-synchronized fault
\* action is waiting touches no line before the action has released the bus;
\* it eventually proceeds once the wait has ended or the lose-arbitration
\* interrupt has fired, unless a fatal stop has halted the system
C26_BlockedThenProceeds ==
    /\ [](fi.pc \in {"act_dir_in", "act_reinit", "act_request", "act_wait",
                     "act_free", "act_output", "act_unlock"} => i2c.pc = "idle")
    /\ [](i2c.pc # "idle" => adap_lock = "i2c")
    /\ [][(sck' # sck \/ mosi' # mosi) /\ fi.pc = "act_wait" => i2c' = i2c]_vars
    /\ (fi.pc = "act_free") ~> (i2c.pc # "idle" \/ panicked)
    /\ (irq.pc = "entry" /\ irq.handler = "lose_arbitration_irq")
           ~> (i2c.pc # "idle" \/ panicked)

\* the lose-arbitration action was handled and has released the bus, and the
\* two-wire transaction has taken it and is at its START
C26_StartedAfterRelease ==
    /\ fi.pc = "done"
    /\ fi.op = "lose_arbitration"
    /\ fi.how = "handled"
    /\ i2c.pc = "start_sda"
    /\ adap_lock = "i2c"

\* C27: a switch to receive with the high-impedance turnaround enabled makes
\* exactly one clock pulse, to not-CPOL and back to CPOL; in half-duplex mode
\* the data line is an input before the pulse; the clock is at its idle
\* polarity when set_direction returns
C27_OneTurnaroundPulse ==
    /\ dirsw.pc = "turnaround_back"
          => /\ dirsw.hiz # 0
             /\ Level(sck) = 1 - dirsw.cpol
             /\ dirsw.three_wire # 0 => mosi.dir = "in"
    /\ (dirsw.pc = "ret" /\ ~dirsw.output /\ dirsw.hiz # 0 /\ dirsw.ret = 0)
          => /\ Level(sck) = dirsw.cpol
             /\ dirsw.ops = (IF dirsw.three_wire # 0 THEN <<"mosi_direction_input">> ELSE <<>>)
                              \o (IF dirsw.cpol = 0 THEN <<"sck_1", "sck_0">>
                                                    ELSE <<"sck_0", "sck_1">>)

\* a half-duplex switch to receive of a CPOL device has returned after its pulse
C27_PulsedAndIdle ==
    /\ dirsw.pc = "ret"
    /\ ~dirsw.output
    /\ dirsw.three_wire = 1
    /\ dirsw.hiz = 1
    /\ dirsw.cpol = 1
    /\ dirsw.ops = <<"mosi_direction_input", "sck_0", "sck_1">>
    /\ Level(sck) = 1
    /\ mosi.dir = "in"

\* C28: a direction switch the line abstraction rejects is returned unchanged
\* and is the call's only line operation: no turnaround pulse follows it
C28_RejectionReturned ==
    /\ [](dirsw.pc = "ret" => dirsw.ret = dirsw.err)
    /\ [](dirsw.err # 0
            => /\ dirsw.pc = "ret"
               /\ dirsw.ops \in {<<"mosi_direction_input">>, <<"mosi_direction_output_1">>})
    /\ [][dirsw'.err # 0 /\ dirsw.pc # "ret" => sck' = sck /\ mosi' = mosi]_vars

\* a rejected switch to input with the turnaround enabled has been returned
C28_RejectedInputReturned ==
    /\ dirsw.pc = "ret"
    /\ ~dirsw.output
    /\ dirsw.three_wire = 1
    /\ dirsw.hiz = 1
    /\ dirsw.ret = -EINVAL
    /\ dirsw.ops = <<"mosi_direction_input">>

\* C29: the data line becomes an input only in a half-duplex switch to
\* receive; a switch to receive with half-duplex disabled leaves the data line
\* alone; an accepted switch to transmit makes it an output at level high
C29_DataDirection ==
    /\ [][mosi'.dir # mosi.dir /\ mosi'.dir = "in"
             => dirsw.three_wire # 0 /\ ~dirsw.output]_vars
    /\ [][dirsw.pc \in {"entry", "turnaround", "turnaround_back"}
             /\ ~dirsw.output /\ dirsw.three_wire = 0 => mosi' = mosi]_vars
    /\ [](dirsw.pc = "ret" /\ ~dirsw.output /\ dirsw.three_wire = 0
             => \A k \in 1 .. Len(dirsw.ops) : dirsw.ops[k] \in {"sck_0", "sck_1"})
    /\ [](dirsw.pc = "ret" /\ dirsw.output
             => dirsw.ops = <<"mosi_direction_output_1">>)
    /\ [](dirsw.pc = "ret" /\ dirsw.output /\ dirsw.ret = 0 => mosi = DrivenHigh)

\* a full-duplex switch to receive has returned with the data line still the
\* driven-low output it was
C29_FullDuplexKeptOutput ==
    /\ dirsw.pc = "ret"
    /\ ~dirsw.output
    /\ dirsw.three_wire = 0
    /\ dirsw.hiz = 1
    /\ dirsw.ret = 0
    /\ mosi = [dir |-> "out", val |-> 0]

\* C30: for every clock mode m the procedure registered for m, in either
\* table, shifts with phase = bit 0 of m and idle polarity = bit 1 of m, and
\* its bit order follows the device's LSB-first flag alone; a word is shifted
\* around the clock level that chip-select assertion put on the line
C30_ModeTable ==
    /\ [](\A no_tx \in BOOLEAN, m \in 0 .. 3, lsb \in BOOLEAN :
            /\ txrx_word(no_tx, m, lsb).cpha = m % 2
            /\ txrx_word(no_tx, m, lsb).cpol = (m \div 2) % 2
            /\ txrx_word(no_tx, m, lsb).routine = IF lsb THEN "le" ELSE "be")
    /\ [](spi.pc \in {"set_dir", "sck_lead"} => Level(sck) = spi.cpol)
    /\ [](spi.pc = "sck_trail" => Level(sck) = 1 - spi.cpol)
    /\ [][spi.pc = "mosi" /\ mosi' # mosi
            => Level(sck) = IF spi.cpha = 0 THEN spi.cpol ELSE 1 - spi.cpol]_vars
    /\ [][spi.pc = "set_dir" /\ spi'.pc \in {"mosi", "sck_lead"}
            => /\ spi'.pc = (IF spi.cpha = 0 THEN "mosi" ELSE "sck_lead")
               /\ spi'.w = txrx_first_word(spi.lsb, spi.tx, spi.bits)]_vars

\* a mode 2, LSB-first word is between its leading and trailing clock edge
C30_Mode2Shifting ==
    /\ spi.pc = "sck_trail"
    /\ spi.cpol = 1
    /\ spi.cpha = 0
    /\ spi.lsb
    /\ spi.n < spi.bits
    /\ Level(sck) = 0

\* C31: a two-wire transaction run in the atomic mode never has to block on
\* the arbiter lock: when it reaches i2c_gpio_pre_xfer the lock is free
C31_AtomicNeverBlocks ==
    (in_atomic /\ i2c.pc = "pre_xfer") => bus_mutex = Free

\* C32: the four-wire engine's busy flag is set only while the four-wire side
\* holds the arbiter lock; it is set after the lock was acquired and cleared
\* before the lock is released
C32_BusyUnderLock ==
    /\ [](busy \in {0, 1})
    /\ [](busy = 1 => bus_mutex = "spi")
    /\ [][busy' # busy => bus_mutex = "spi" /\ bus_mutex' = "spi"]_vars
    /\ [][bus_mutex = "spi" /\ bus_mutex' # "spi" => busy = 0 /\ busy' = 0]_vars
    /\ [][bus_mutex # "spi" /\ bus_mutex' = "spi" => busy = 0 /\ busy' = 0]_vars

\* the flag is set in the middle of a word while a two-wire transaction waits
\* for the lock
C32_BusyWhileContended ==
    /\ busy = 1
    /\ spi.pc = "sck_trail"
    /\ i2c.pc = "pre_xfer"
    /\ bus_mutex = "spi"

\* the arbiter lock is initialised exactly once, before any engine is
\* registered, and the four-wire master is registered before the two-wire
\* adapters
LockBeforeEngines ==
    /\ core.mutex_inits <= 1
    /\ core.pc \in {"request", "spi", "i2c", "i2c2"} => core.mutex_inits = 1
    /\ core.registered # <<>> => core.mutex_inits = 1
    /\ core.registered \in {<<>>, <<"spi">>, <<"spi", "i2c">>, <<"spi", "i2c", "i2c2">>}

\* C33: the arbiter lock is created exactly once and before either engine is
\* registered, the four-wire engine is registered before the two-wire
\* engine(s), and a missing second two-wire bus does not fail initialization
C33_InitOrder ==
    /\ LockBeforeEngines
    /\ (/\ core.pc = "done"
        /\ core.two_bus
        /\ {"mosi", "sck"} \subseteq core.lines
        /\ {"spi-citrus", "i2c-citrus"} \subseteq core.nodes
        /\ core.nodes \cap {"i2c-citrus2"} = {} \/ "sck2" \notin core.lines
        /\ core.ret # -12)
          => (core.ret = 0 /\ core.registered = <<"spi", "i2c">>)

====
